---- MODULE Spec2Model ----
(***************************************************************************)
(* Verification model of the ingestion-and-retrieval pipeline of           *)
(* rust-docs-mcp-server: the fetcher (doc_loader.rs fetch_with_retry), the *)
(* crawler (load_documents_from_docs_rs), the chunker (embeddings.rs       *)
(* _chunk_content) and the vector store (database.rs).                     *)
(*                                                                         *)
(* Each component has its own specification over the shared variables;     *)
(* the variables of the other components stay at their idle values.        *)
(***************************************************************************)
EXTENDS Integers, Sequences, FiniteSets, TLC

VARIABLES
    \* ---- fetcher: one call of fetch_with_retry ----
    responses,      \* what the server answers to the 1st, 2nd, ... request
    max_retries,    \* the max_retries argument
    fetch_pc,       \* "call" | "done"
    fetch_out,      \* [result, requests, waits] of the finished call
    \* ---- chunker: one call of _chunk_content ----
    content,        \* the text, a sequence of characters
    token_limit,    \* the token_limit argument
    chunk_pc,       \* "call" | "done"
    chunks,         \* the returned Vec<String>
    \* ---- crawler: one call of load_documents_from_docs_rs ----
    max_pages,      \* the page budget
    to_visit,       \* the frontier, a VecDeque of URLs
    visited,        \* the HashSet of URLs
    processed,      \* the page counter
    documents,      \* the paths of the documents pushed so far
    crawl_pc,       \* "loop" | "fetch" | "done"
    cur_url,        \* the URL popped in this iteration
    fetched,        \* history: the URLs handed to fetch_with_retry, in order
    fetch_failed,   \* history: the URLs whose fetch_with_retry returned Err
    with_content,   \* history: the URLs fetched whose page had content blocks
    followed,       \* history: the link loop ran for the page last fetched
    enqueued,       \* history: the URLs in the order they were first enqueued, with depth
    slept,          \* history: the 500 ms sleep was made after the last fetch
    extracted_version, \* extracted_version: "none" or the text
    root_elem,      \* history: the version element read on base_url's page
    \* ---- vector store: the tables and one client of database.rs ----
    crates,         \* table crates: name -> record, or NoCrate
    doc_embeddings, \* table doc_embeddings, committed rows: key -> row, or NoRow
    next_id,        \* the sequence behind crates.id
    db_pc,          \* "idle" | "tx" | "committed" | "ok" | "err"
    db_err,         \* the statement that failed, when db_pc = "err"
    b_crate,        \* insert_embeddings_batch: crate_name
    b_crate_id,     \* insert_embeddings_batch: crate_id
    batch,          \* insert_embeddings_batch: embeddings
    b_idx,          \* rows of the batch executed so far
    tx_rows,        \* rows written in the open transaction, not yet committed
    pre_docs,       \* history: doc_embeddings when the call began
    pre_totals,     \* history: the crate's totals when the call began
    is_repeat,      \* history: the call repeats the batch of the call before
    up_last,        \* history: the last upsert_crate call, or NoUpsert
    \* ---- retrieval: one call of search_similar_docs ----
    q_crate,        \* the crate_name argument
    q_vec,          \* the query_embedding argument
    q_k,            \* the limit argument
    q_db_up,        \* whether the pool can execute the statement
    search_pc,      \* "idle" | "call" | "done"
    search_out,     \* [result, rows] of the finished call
    \* ---- embedding orchestrator: one call of generate_embeddings ----
    e_chunks,       \* all_chunks.len(): the chunks of the stream, 1..e_chunks
    e_next,         \* chunks the stream has handed out so far
    e_in_flight,    \* chunks whose provider call was sent and has not returned
    e_ok,           \* results: the number of Ok entries collected so far
    e_first_err,    \* results: its first Err entry, or NoErr
    e_mismatched,   \* history: a response held a number of vectors other than 1
    e_pc,           \* "idle" | "run" | "done"
    e_out,          \* the value generate_embeddings returns
    e_results,      \* results: the Ok entries collected, emptied by the first Err
    e_reordered,    \* history: a call returned while an earlier chunk was in flight
    e_returned,     \* the (embeddings_vec, total_processed_tokens) of an Ok return
    \* ---- ingestion run: the task of one crate in populate_all ----
    run_pc,         \* "idle" | "crawl" | "embed" | "upsert" | "batch" | "ok" | "failed"
    run_err,        \* the step that failed, when run_pc = "failed"
    run_version,    \* load_result.version: Option<String>
    run_pre_crates, \* history: table crates when the run began
    run_pre_docs,   \* history: table doc_embeddings when the run began
    \* ---- retrieval path: one call of query_rust_docs ----
    qr_impl,        \* "server" (server.rs) | "http" (bin/http_server.rs)
    qr_crate,       \* args.crate_name
    qr_pc,          \* "idle" | "start" | "precheck" | "embed" | "search" | "llm" | "done"
    qr_embed_calls, \* history: embedding calls made
    qr_batch,       \* history: the number of texts of the last embedding call
    qr_resp,        \* history: what the last embedding call came back with
    qr_vec,         \* the question vector
    qr_search_calls, \* history: search_similar_docs calls made
    qr_llm_calls,   \* history: chat completion calls made
    qr_results,     \* search_results
    qr_out,         \* what the query returns: "Ok" or the error
    \* ---- generate_embeddings: preparation of the chunks of one document ----
    doc_content,    \* doc.content
    prep_pc,        \* "idle" | "prepare" | "done"
    all_chunks, \* all_chunks: the (chunk_path, chunk) pairs pushed
    \* ---- populate_all: the tasks of the crates under try_join_all ----
    pa_task,        \* crate -> where its task is: "idle" | "load" | .. | "done" | "failed" | "dropped"
    pa_stored,      \* crate -> what the task has written: "nothing" | "record" | "chunks"
    pa_main         \* "idle" | "joining" | "ok" | "err"

fetchVars == <<responses, max_retries, fetch_pc, fetch_out>>
chunkVars == <<content, token_limit, chunk_pc, chunks>>
crawlHistVars == <<followed, enqueued, slept, extracted_version, root_elem>>
crawlVars == <<max_pages, to_visit, visited, processed, documents, crawl_pc,
               cur_url, fetched, fetch_failed, with_content, crawlHistVars>>
dbVars == <<crates, doc_embeddings, next_id, db_pc, db_err, b_crate,
            b_crate_id, batch, b_idx, tx_rows, pre_docs, pre_totals, is_repeat,
            up_last>>
searchVars == <<q_crate, q_vec, q_k, q_db_up, search_pc, search_out>>
embedVars == <<e_chunks, e_next, e_in_flight, e_ok, e_first_err, e_mismatched,
               e_pc, e_out, e_results, e_reordered, e_returned>>
runVars == <<run_pc, run_err, run_version, run_pre_crates, run_pre_docs>>
queryVars == <<qr_impl, qr_crate, qr_pc, qr_embed_calls, qr_batch, qr_resp, qr_vec,
               qr_search_calls, qr_llm_calls, qr_results, qr_out>>
prepVars == <<doc_content, prep_pc, all_chunks>>
popVars == <<pa_task, pa_stored, pa_main>>
vars == <<fetchVars, chunkVars, crawlVars, dbVars, searchVars, embedVars, runVars,
          queryVars, prepVars, popVars>>

Min(a, b) == IF a <= b THEN a ELSE b

(***************************************************************************)
(* Fetcher: doc_loader.rs fetch_with_retry                                 *)
(***************************************************************************)

\* The outcomes of one request: a 2xx response whose body is read, a 2xx
\* response whose body cannot be read, HTTP 429, another non-2xx status,
\* a transport error.
Statuses == {"ok", "body_err", "s429", "http_err", "net_err"}

\* fetch_with_retry(&client, &url, 3): the only call site.
MAX_RETRIES == 3

INITIAL_DELAY_MS == 1000

DELAY_CAP_MS == 30000

MaxRetriesBound == 6

\* delay = min(delay * 2, 30 s)
NextDelayUncapped(delay) == delay * 2
NextDelayNoDoubling(delay) == delay
NextDelay(delay) == Min(delay * 2, DELAY_CAP_MS)

\* The error a failing response yields once attempts >= max_retries.
ErrorOf(status) ==
    CASE status = "body_err" -> "Http"
      [] status = "s429"     -> "RateLimited"
      [] status = "http_err" -> "Network"
      [] status = "net_err"  -> "Http"

\* The match arms of one loop iteration: TRUE when the function returns
\* from this iteration, FALSE when it falls through to the sleep.
ReturnsAt(status, attempts, maxr) ==
    IF status = "ok" THEN TRUE ELSE attempts >= maxr

\* The loop of fetch_with_retry, iteration by iteration. resps[attempts + 1]
\* is the response to the request of this iteration; waits collects the
\* sleeps made so far.
RECURSIVE FetchLoop(_, _, _, _, _)
FetchLoop(resps, maxr, attempts, delay, waits) ==
    LET status == resps[attempts + 1] IN
    IF ReturnsAt(status, attempts, maxr)
    THEN [result   |-> IF status = "ok" THEN "Ok" ELSE ErrorOf(status),
          requests |-> attempts + 1,
          waits    |-> waits]
    ELSE FetchLoop(resps, maxr, attempts + 1, NextDelay(delay),
                   Append(waits, delay))

fetch_with_retry(resps, maxr) == FetchLoop(resps, maxr, 0, INITIAL_DELAY_MS, <<>>)

NoFetchOut == [result |-> "none", requests |-> 0, waits |-> <<>>]

FetchIdle ==
    /\ responses = <<>>
    /\ max_retries = 0
    /\ fetch_pc = "idle"
    /\ fetch_out = NoFetchOut

FetchInit ==
    /\ max_retries \in 0..MaxRetriesBound
    /\ responses \in [1..(max_retries + 1) -> Statuses]
    /\ fetch_pc = "call"
    /\ fetch_out = NoFetchOut

FetchCall ==
    /\ fetch_pc = "call"
    /\ fetch_out' = fetch_with_retry(responses, max_retries)
    /\ fetch_pc' = "done"
    /\ UNCHANGED <<responses, max_retries, chunkVars, crawlVars, dbVars, searchVars, embedVars, runVars, queryVars, prepVars, popVars>>

(***************************************************************************)
(* Chunker: embeddings.rs _chunk_content                                   *)
(***************************************************************************)

\* Texts are sequences over a letter, the period and the space.
Alphabet == {"a", ".", " "}

MaxLen == 6

MaxLimit == 3

Texts == UNION {[1..n -> Alphabet] : n \in 1..MaxLen}

Letters == {"a"}
Spaces == {" "}
Puncts == {"."}

IsLetter(c) == c \in Letters
IsSpace(c) == c \in Spaces
IsPunct(c) == c \in Puncts

\* Length of the longest run of characters of class cls in s from index i.
RECURSIVE RunLen(_, _, _)
RunLen(s, i, cls) ==
    IF i <= Len(s) /\ s[i] \in cls THEN 1 + RunLen(s, i + 1, cls) ELSE 0

\* Length of the first token of the non-empty text s: the pre-tokenisation
\* pattern of cl100k_base restricted to the alphabet, tried in its order:
\*   [^\r\n\p{L}\p{N}]?\p{L}+  |  ' '?[^\s\p{L}\p{N}]+  |  \s+(?!\S)  |  \s+
\* Every piece of these short texts is one token of the vocabulary.
FirstTokenLen(s) ==
    LET n == Len(s) IN
    IF IsLetter(s[1]) THEN RunLen(s, 1, Letters)
    ELSE IF n >= 2 /\ IsLetter(s[2]) THEN 1 + RunLen(s, 2, Letters)
    ELSE IF IsPunct(s[1]) THEN RunLen(s, 1, Puncts)
    ELSE IF n >= 2 /\ IsPunct(s[2]) THEN 1 + RunLen(s, 2, Puncts)
    ELSE LET w == RunLen(s, 1, Spaces) IN
         IF w = n THEN w ELSE w - 1

\* bpe.encode_with_special_tokens(text): the sequence of tokens.
RECURSIVE Encode(_)
Encode(s) ==
    IF s = <<>> THEN <<>>
    ELSE LET k == FirstTokenLen(s) IN
         <<SubSeq(s, 1, k)>> \o Encode(SubSeq(s, k + 1, Len(s)))

\* bpe.decode(tokens): the text of the tokens.
RECURSIVE Decode(_)
Decode(toks) ==
    IF toks = <<>> THEN <<>> ELSE Head(toks) \o Decode(Tail(toks))

TokenCount(s) == Len(Encode(s))

\* content.split(". "): the pieces between the non-overlapping occurrences
\* of ". ", found left to right.
RECURSIVE SplitFrom(_, _)
SplitFrom(s, cur) ==
    IF s = <<>> THEN <<cur>>
    ELSE IF Len(s) >= 2 /\ s[1] = "." /\ s[2] = " "
         THEN <<cur>> \o SplitFrom(SubSeq(s, 3, Len(s)), <<>>)
         ELSE SplitFrom(Tail(s), Append(cur, s[1]))

SplitSentences(s) == SplitFrom(s, <<>>)

\* if sentence.ends_with('.') { sentence } else { format!("{}.", sentence) }
SentenceWithPeriod(sentence) ==
    IF sentence # <<>> /\ sentence[Len(sentence)] = "."
    THEN sentence
    ELSE Append(sentence, ".")

\* sentences.join(" ")
RECURSIVE Join(_)
Join(ss) ==
    IF ss = <<>> THEN <<>>
    ELSE IF Len(ss) = 1 THEN ss[1]
    ELSE ss[1] \o <<" ">> \o Join(Tail(ss))

\* The fallback of an oversized sentence: the tokens of the WHOLE content,
\* from start, in slices of token_limit tokens, each decoded to a chunk.
RECURSIVE TokenSlices(_, _, _)
TokenSlices(tokens, start, limit) ==
    IF start < Len(tokens)
    THEN LET end == Min(start + limit, Len(tokens)) IN
         <<Decode(SubSeq(tokens, start + 1, end))>> \o TokenSlices(tokens, end, limit)
    ELSE <<>>

\* if tokens.len() <= token_limit { return vec![content] }
FitsLimitStrict(n, limit) == n < limit
FitsLimit(n, limit) == n <= limit

\* The for loop over the sentences. cur_sentences and cur_tokens are
\* current_chunk_sentences and current_chunk_tokens (its length).
RECURSIVE ChunkLoop(_, _, _, _, _, _, _)
ChunkLoop(sentences, i, tokens, limit, out, cur_sentences, cur_tokens) ==
    IF i > Len(sentences)
    THEN IF cur_sentences # <<>> THEN Append(out, Join(cur_sentences)) ELSE out
    ELSE LET swp     == SentenceWithPeriod(sentences[i])
             st      == TokenCount(swp)
             flush   == cur_tokens # 0 /\ cur_tokens + st > limit
             out1    == IF flush THEN Append(out, Join(cur_sentences)) ELSE out
             cs1     == IF flush THEN <<>> ELSE cur_sentences
             ct1     == IF flush THEN 0 ELSE cur_tokens
         IN  IF st > limit
             THEN ChunkLoop(sentences, i + 1, tokens, limit,
                            out1 \o TokenSlices(tokens, 0, limit), cs1, ct1)
             ELSE ChunkLoop(sentences, i + 1, tokens, limit,
                            out1, Append(cs1, swp), ct1 + st)

chunk_content(text, limit) ==
    LET tokens == Encode(text) IN
    IF FitsLimit(Len(tokens), limit)
    THEN <<text>>
    ELSE ChunkLoop(SplitSentences(text), 1, tokens, limit, <<>>, <<>>, 0)

ChunkIdle ==
    /\ content = <<>>
    /\ token_limit = 0
    /\ chunk_pc = "idle"
    /\ chunks = <<>>

ChunkInit ==
    /\ content \in Texts
    /\ token_limit \in 1..MaxLimit
    /\ chunk_pc = "call"
    /\ chunks = <<>>

ChunkCall ==
    /\ chunk_pc = "call"
    /\ chunks' = chunk_content(content, token_limit)
    /\ chunk_pc' = "done"
    /\ UNCHANGED <<content, token_limit, fetchVars, crawlVars, dbVars, searchVars, embedVars, runVars, queryVars, prepVars, popVars>>


(***************************************************************************)
(* Crawler: doc_loader.rs load_documents_from_docs_rs                      *)
(***************************************************************************)

\* The pages of the crawled crate; "root" is base_url.
CrateUrls == {"root", "a", "b"}

\* A page of another crate on docs.rs whose name contains crate_name (for
\* the crate c1, a page of the crate c1_derive): a relative link such as
\* ../../c1_derive/index.html resolves to it.
SiblingUrls == {"x"}

\* What the links of a page resolve to: a page of the crate, a page of a
\* crate whose name contains the crate name, or a URL that does not
\* contain "docs.rs" and the crate name.
LinkTargets == CrateUrls \cup SiblingUrls \cup {"other"}

\* new_url_str.contains("docs.rs") && new_url_str.contains(crate_name)
ContainsSiteAndName(url) == url \in CrateUrls \cup SiblingUrls

MaxPagesBound == 4

MaxLinks == 2

MaxSameLinks == 7

\* The followed links of one page, resolved, in document order: every list
\* of up to MaxLinks links, and the lists of MaxSameLinks links to one page
\* of the crate.
LinkLists ==
    UNION ({[1..n -> LinkTargets] : n \in 0..MaxLinks}
           \cup {[1..MaxSameLinks -> {t}] : t \in CrateUrls})

\* What fetch_with_retry(&client, &url, 3) can return.
FetchResults ==
    {fetch_with_retry(rs, MAX_RETRIES).result :
        rs \in [1..(MAX_RETRIES + 1) -> Statuses]}

\* if processed >= max_pages { break }
BudgetReachedOffByOne(n, maxp) == n > maxp
BudgetReached(n, maxp) == n >= maxp

\* if visited.contains(&url) { continue }
AlreadyVisitedNever(url, vis) == FALSE
AlreadyVisited(url, vis) == url \in vis

\* if processed < (max_pages * 3 / 4)
FollowsLinks(n, maxp) == n < (maxp * 3) \div 4

\* Err(e) => { eprintln!(..); continue; }: where the loop goes when
\* fetch_with_retry returned an error.
AfterFetchErrReturns == "err"
AfterFetchErr == "loop"

\* new_url_str.contains("docs.rs") && new_url_str.contains(crate_name)
\*     && !visited.contains(&new_url_str)
LinkAccepted(url, vis) == ContainsSiteAndName(url) /\ url \notin vis

\* The for loop over the links: to_visit.push_back for every accepted link.
RECURSIVE PushLinksFront(_, _, _)
RECURSIVE PushLinks(_, _, _)
PushLinksFront(queue, lnks, vis) ==
    IF lnks = <<>> THEN queue
    ELSE PushLinksFront(IF LinkAccepted(Head(lnks), vis)
                        THEN <<Head(lnks)>> \o queue ELSE queue,
                        Tail(lnks), vis)

PushLinks(queue, lnks, vis) ==
    IF lnks = <<>> THEN queue
    ELSE PushLinks(IF LinkAccepted(Head(lnks), vis)
                   THEN Append(queue, Head(lnks)) ELSE queue,
                   Tail(lnks), vis)

\* The text of the first element matching ".version", or "absent".
VersionElems == {"absent", "1.2.3"}

\* url.split('/').nth_back(2): "latest" for base_url
\* (https://docs.rs/c1/latest/c1/) and for the pages next to it, the crate
\* name for a page one module down (https://docs.rs/c1/latest/c1/m/b.html).
VersionSegment(url) == IF url = "b" THEN "c1" ELSE "latest"

\* version_match.chars().any(|c| c.is_numeric())
HasDigit(segment) == segment \in {"c1", "1.2.3"}

\* if extracted_version.is_none() && processed == 1
IsFirstPageAny(n) == TRUE
IsFirstPage(n) == n = 1

\* The version the block finds on a page: the text of the version element,
\* or else the URL segment when it is not "latest" and has a digit.
ExtractVersion(elem, url) ==
    IF elem # "absent" THEN elem
    ELSE IF VersionSegment(url) # "latest" /\ HasDigit(VersionSegment(url))
         THEN VersionSegment(url)
         ELSE "none"

EnqueuedUrls(enq) == {enq[i].url : i \in 1..Len(enq)}

DepthOf(enq, url) == (CHOOSE r \in {enq[i] : i \in 1..Len(enq)} : r.url = url).depth

\* The record of first enqueues kept along the for loop over the links: a
\* pushed URL that was never pushed before is noted with depth d.
RECURSIVE NoteEnqueued(_, _, _, _)
NoteEnqueued(enq, lnks, vis, d) ==
    IF lnks = <<>> THEN enq
    ELSE NoteEnqueued(IF LinkAccepted(Head(lnks), vis)
                         /\ Head(lnks) \notin EnqueuedUrls(enq)
                      THEN Append(enq, [url |-> Head(lnks), depth |-> d]) ELSE enq,
                      Tail(lnks), vis, d)

CrawlIdle ==
    /\ max_pages = 0
    /\ to_visit = <<>>
    /\ visited = {}
    /\ processed = 0
    /\ documents = <<>>
    /\ crawl_pc = "idle"
    /\ cur_url = "none"
    /\ fetched = <<>>
    /\ fetch_failed = {}
    /\ with_content = {}
    /\ followed = FALSE
    /\ enqueued = <<>>
    /\ slept = FALSE
    /\ extracted_version = "none"
    /\ root_elem = "unfetched"

CrawlInit ==
    /\ max_pages \in 0..MaxPagesBound
    /\ to_visit = <<"root">>
    /\ visited = {}
    /\ processed = 0
    /\ documents = <<>>
    /\ crawl_pc = "loop"
    /\ cur_url = "none"
    /\ fetched = <<>>
    /\ fetch_failed = {}
    /\ with_content = {}
    /\ followed = FALSE
    /\ enqueued = <<[url |-> "root", depth |-> 0]>>
    /\ slept = FALSE
    /\ extracted_version = "none"
    /\ root_elem = "unfetched"

\* while let Some(url) = to_visit.pop_front(): the frontier is empty.
CrawlFrontierEmpty ==
    /\ crawl_pc = "loop"
    /\ to_visit = <<>>
    /\ crawl_pc' = "done"
    /\ UNCHANGED <<max_pages, to_visit, visited, processed, documents,
                   cur_url, fetched, fetch_failed, with_content, crawlHistVars, fetchVars, chunkVars, dbVars, searchVars, embedVars, runVars, queryVars, prepVars, popVars>>

\* A URL is popped and the page budget is used up: break.
CrawlBudgetReached ==
    /\ crawl_pc = "loop"
    /\ to_visit # <<>>
    /\ BudgetReached(processed, max_pages)
    /\ to_visit' = Tail(to_visit)
    /\ cur_url' = Head(to_visit)
    /\ crawl_pc' = "done"
    /\ UNCHANGED <<max_pages, visited, processed, documents, fetched, fetch_failed, with_content, crawlHistVars,
                   fetchVars, chunkVars, dbVars, searchVars, embedVars, runVars, queryVars, prepVars, popVars>>

\* A URL is popped that was visited before: continue.
CrawlSkipVisited ==
    /\ crawl_pc = "loop"
    /\ to_visit # <<>>
    /\ ~BudgetReached(processed, max_pages)
    /\ AlreadyVisited(Head(to_visit), visited)
    /\ to_visit' = Tail(to_visit)
    /\ cur_url' = Head(to_visit)
    /\ UNCHANGED <<max_pages, visited, processed, documents, crawl_pc,
                   fetched, fetch_failed, with_content, crawlHistVars, fetchVars, chunkVars, dbVars, searchVars, embedVars, runVars, queryVars, prepVars, popVars>>

\* A new URL is popped: it is marked visited, counted, and handed to
\* fetch_with_retry.
CrawlVisit ==
    /\ crawl_pc = "loop"
    /\ to_visit # <<>>
    /\ ~BudgetReached(processed, max_pages)
    /\ ~AlreadyVisited(Head(to_visit), visited)
    /\ to_visit' = Tail(to_visit)
    /\ cur_url' = Head(to_visit)
    /\ visited' = visited \cup {Head(to_visit)}
    /\ processed' = processed + 1
    /\ fetched' = Append(fetched, Head(to_visit))
    /\ crawl_pc' = "fetch"
    /\ UNCHANGED <<max_pages, documents, fetch_failed, with_content, crawlHistVars, fetchVars, chunkVars, dbVars, searchVars, embedVars, runVars, queryVars, prepVars, popVars>>

\* fetch_with_retry returned Err: the page is logged and skipped.
CrawlFetchFailed ==
    /\ crawl_pc = "fetch"
    /\ \E r \in FetchResults : r # "Ok"
    /\ crawl_pc' = AfterFetchErr
    /\ fetch_failed' = fetch_failed \cup {cur_url}
    /\ slept' = FALSE
    /\ UNCHANGED <<max_pages, to_visit, visited, processed, documents,
                   cur_url, fetched, with_content, followed, enqueued,
                   extracted_version, root_elem, fetchVars, chunkVars, dbVars, searchVars, embedVars, runVars, queryVars, prepVars, popVars>>

\* fetch_with_retry returned the page: a document is pushed when the page
\* has content blocks, the links are enqueued while link following is on,
\* and the loop sleeps 500 ms.
CrawlFetchOk ==
    /\ crawl_pc = "fetch"
    /\ "Ok" \in FetchResults
    /\ IF extracted_version = "none" /\ IsFirstPage(processed)
       THEN \E elem \in VersionElems :
                /\ extracted_version' = ExtractVersion(elem, cur_url)
                /\ root_elem' = IF cur_url = "root" THEN elem ELSE root_elem
       ELSE UNCHANGED <<extracted_version, root_elem>>
    /\ \E has_content \in BOOLEAN, lnks \in LinkLists :
        /\ documents' = IF has_content THEN Append(documents, cur_url)
                        ELSE documents
        /\ with_content' = IF has_content THEN with_content \cup {cur_url}
                           ELSE with_content
        /\ to_visit' = IF FollowsLinks(processed, max_pages)
                       THEN PushLinks(to_visit, lnks, visited)
                       ELSE to_visit
        /\ enqueued' = IF FollowsLinks(processed, max_pages)
                       THEN NoteEnqueued(enqueued, lnks, visited,
                                         DepthOf(enqueued, cur_url) + 1)
                       ELSE enqueued
    /\ followed' = FollowsLinks(processed, max_pages)
    /\ slept' = TRUE
    /\ crawl_pc' = "loop"
    /\ UNCHANGED <<max_pages, visited, processed, cur_url, fetched, fetch_failed,
                   fetchVars, chunkVars, dbVars, searchVars, embedVars, runVars, queryVars, prepVars, popVars>>


(***************************************************************************)
(* Vector store: database.rs                                               *)
(***************************************************************************)

CrateNames == {"c1", "c2"}

Paths == {"p1", "p2"}

\* The natural key of doc_embeddings: (crate_name, doc_path).
Keys == CrateNames \X Paths

\* The (content, embedding, token_count) a batch row can carry.
ChunkVals ==
    { [content |-> "x", embedding |-> <<1, 0>>, token_count |-> 1],
      [content |-> "y", embedding |-> <<3, 4>>, token_count |-> 2] }

\* One element of embeddings: (path, content, embedding, token_count).
BatchRows ==
    { [path |-> p, content |-> c.content, embedding |-> c.embedding,
       token_count |-> c.token_count] : p \in Paths, c \in ChunkVals }

MaxBatch == 2

Batches == UNION {[1..n -> BatchRows] : n \in 1..MaxBatch}

\* Option<&str> version.
Versions == {"NULL", "1.0", "2.0"}

NoCrate == [id |-> 0]
NoRow == [crate_id |-> 0]
NoTotals == [total_docs |-> 0, total_tokens |-> 0]
NoUpsert == [name |-> "none"]

\* One call of upsert_crate(crate_name, version) that returned Ok(id): its
\* arguments, the id and version of the record it found (0 and "NULL" when
\* there was none) and the id it returned.
UpsertCall(old, name, version, stored) ==
    [name |-> name, version |-> version,
     found |-> old # NoCrate,
     prev_id |-> IF old = NoCrate THEN 0 ELSE old.id,
     prev_version |-> IF old = NoCrate THEN "NULL" ELSE old.version,
     id |-> stored.id]

\* INSERT INTO crates (name, version) VALUES ($1, $2)
\* ON CONFLICT (name) DO UPDATE SET version = COALESCE($2, crates.version)
\* RETURNING id
UpsertedCrateOverwrite(old, id, version) ==
    IF old = NoCrate
    THEN [id |-> id, version |-> version, total_docs |-> 0, total_tokens |-> 0]
    ELSE [old EXCEPT !.version = version]
UpsertedCrate(old, id, version) ==
    IF old = NoCrate
    THEN [id |-> id, version |-> version, total_docs |-> 0, total_tokens |-> 0]
    ELSE [old EXCEPT !.version = IF version # "NULL" THEN version ELSE @]

\* INSERT INTO doc_embeddings (..) VALUES ($1 .. $6)
\* ON CONFLICT (crate_name, doc_path) DO UPDATE SET content = $4,
\* embedding = $5, token_count = $6: the row stored under the key afterwards.
UpsertedRow(old, id, r) ==
    IF old = NoRow
    THEN [crate_id |-> id, content |-> r.content, embedding |-> r.embedding,
          token_count |-> r.token_count]
    ELSE [old EXCEPT !.content = r.content, !.embedding = r.embedding,
                     !.token_count = r.token_count]

\* The rows a statement of the open transaction sees: the committed rows
\* overlaid with the transaction's own writes.
TxView(docs, txr) == [k \in DOMAIN docs |-> IF k \in DOMAIN txr THEN txr[k] ELSE docs[k]]

\* What the insert statement of the loop is executed on: .execute(&mut *tx)
InsertExecutorPool == "pool"
InsertExecutor == "tx"

\* SELECT .. FROM doc_embeddings WHERE crate_id = $1: the keys of the rows.
StatsRowsAllCrates(docs, id) == {k \in DOMAIN docs : docs[k] # NoRow}
StatsRows(docs, id) == {k \in DOMAIN docs : docs[k] # NoRow /\ docs[k].crate_id = id}

\* COALESCE(SUM(token_count), 0) over the rows of the keys ks.
RECURSIVE SumTokens(_, _)
SumTokens(docs, ks) ==
    IF ks = {} THEN 0
    ELSE LET k == CHOOSE x \in ks : TRUE IN
         docs[k].token_count + SumTokens(docs, ks \ {k})

\* UPDATE crates SET total_docs = (SELECT COUNT(*) ..),
\*                   total_tokens = (SELECT COALESCE(SUM(token_count), 0) ..)
TotalsIncremented(old, docs, ks) ==
    [total_docs   |-> old.total_docs + Cardinality(ks),
     total_tokens |-> old.total_tokens + SumTokens(docs, ks)]
TotalsRecomputed(old, docs, ks) ==
    [total_docs   |-> Cardinality(ks),
     total_tokens |-> SumTokens(docs, ks)]

\* update_crate_stats(crate_id): UPDATE crates SET .. WHERE id = $1
UpdatedCrateStatsEveryCrate(crs, docs, id) ==
    [n \in DOMAIN crs |->
        IF crs[n] # NoCrate
        THEN LET t == TotalsRecomputed(crs[n], docs, StatsRows(docs, id)) IN
             [crs[n] EXCEPT !.total_docs = t.total_docs,
                            !.total_tokens = t.total_tokens]
        ELSE crs[n]]
UpdatedCrateStats(crs, docs, id) ==
    [n \in DOMAIN crs |->
        IF crs[n] # NoCrate /\ crs[n].id = id
        THEN LET t == TotalsRecomputed(crs[n], docs, StatsRows(docs, id)) IN
             [crs[n] EXCEPT !.total_docs = t.total_docs,
                            !.total_tokens = t.total_tokens]
        ELSE crs[n]]

\* has_embeddings(crate_name): SELECT EXISTS(SELECT 1 .. WHERE crate_name = $1)
has_embeddings(docs, name) == \E k \in DOMAIN docs : k[1] = name /\ docs[k] # NoRow

TotalsOf(crs, name) ==
    IF crs[name] = NoCrate THEN NoTotals
    ELSE [total_docs |-> crs[name].total_docs, total_tokens |-> crs[name].total_tokens]

\* No call of the client is in progress.
ClientIdle ==
    /\ db_pc = "idle"
    /\ db_err = "none"
    /\ b_crate = "none"
    /\ b_crate_id = 0
    /\ batch = <<>>
    /\ b_idx = 0
    /\ tx_rows = <<>>
    /\ pre_docs = [k \in Keys |-> NoRow]
    /\ pre_totals = NoTotals
    /\ is_repeat = FALSE
    /\ up_last = NoUpsert

DbIdle ==
    /\ crates = [n \in CrateNames |-> NoCrate]
    /\ doc_embeddings = [k \in Keys |-> NoRow]
    /\ next_id = 1
    /\ ClientIdle

\* The crate the client of this model ingests; the other crate was stored
\* by an earlier run and is only read.
Ingested == {"c1"}

\* What the earlier run stored for crate c2 (id 1): its rows, by path.
StoredBefore ==
    { <<>>,
      [p \in {"p1"} |-> "x"],
      [p \in {"p1", "p2"} |-> IF p = "p1" THEN "x" ELSE "y"] }

ChunkValOf(c) == CHOOSE v \in ChunkVals : v.content = c

RowOf(id, c) ==
    [crate_id |-> id, content |-> c, embedding |-> ChunkValOf(c).embedding,
     token_count |-> ChunkValOf(c).token_count]

\* No call in progress; crate c2 is stored with up-to-date totals, crate c1
\* is unknown to the store.
DbInit ==
    /\ \E st \in StoredBefore :
        LET docs == [k \in Keys |-> IF k[1] = "c2" /\ k[2] \in DOMAIN st
                                    THEN RowOf(1, st[k[2]]) ELSE NoRow]
            t    == TotalsRecomputed(NoTotals, docs, StatsRows(docs, 1))
        IN  /\ doc_embeddings = docs
            /\ crates =
                 [n \in CrateNames |->
                    IF n = "c2"
                    THEN [id |-> 1, version |-> "1.0",
                          total_docs |-> t.total_docs,
                          total_tokens |-> t.total_tokens]
                    ELSE NoCrate]
    /\ next_id = 2
    /\ ClientIdle

Returned == db_pc \in {"ok", "err"}

\* The call has returned and the caller goes on.
DbReturn ==
    /\ Returned
    /\ db_pc' = "idle"
    /\ db_err' = "none"
    /\ b_crate' = "none"
    /\ b_crate_id' = 0
    /\ batch' = <<>>
    /\ b_idx' = 0
    /\ tx_rows' = <<>>
    /\ pre_docs' = [k \in Keys |-> NoRow]
    /\ pre_totals' = NoTotals
    /\ is_repeat' = FALSE
    /\ UNCHANGED <<crates, doc_embeddings, next_id, up_last,
                   fetchVars, chunkVars, crawlVars, searchVars, embedVars, runVars, queryVars, prepVars, popVars>>

\* The caller runs the call that has just succeeded once more, with the
\* same crate and the same batch.
BatchRepeat ==
    /\ db_pc = "ok"
    /\ is_repeat' = TRUE
    /\ pre_totals' = TotalsOf(crates, b_crate)
    /\ pre_docs' = doc_embeddings
    /\ b_idx' = 0
    /\ tx_rows' = <<>>
    /\ db_pc' = "tx"
    /\ UNCHANGED <<crates, doc_embeddings, next_id, up_last, db_err, b_crate,
                   b_crate_id, batch, fetchVars, chunkVars, crawlVars, searchVars, embedVars, runVars, queryVars, prepVars, popVars>>

\* upsert_crate(crate_name, version)
UpsertCrate ==
    /\ db_pc = "idle"
    /\ \E name \in Ingested, version \in Versions :
        /\ crates' = [crates EXCEPT ![name] = UpsertedCrate(@, next_id, version)]
        /\ next_id' = IF crates[name] = NoCrate THEN next_id + 1 ELSE next_id
        /\ up_last' = UpsertCall(crates[name], name, version, crates'[name])
    /\ UNCHANGED <<doc_embeddings, db_pc, db_err, b_crate, b_crate_id, batch,
                   b_idx, tx_rows, pre_docs, pre_totals, is_repeat,
                   fetchVars, chunkVars, crawlVars, searchVars, embedVars, runVars, queryVars, prepVars, popVars>>

\* delete_crate_embeddings(crate_name):
\* DELETE FROM doc_embeddings WHERE crate_name = $1
DeleteCrateEmbeddings ==
    /\ db_pc = "idle"
    /\ \E name \in Ingested :
        /\ has_embeddings(doc_embeddings, name)
        /\ doc_embeddings' = [k \in DOMAIN doc_embeddings |->
                                IF k[1] = name THEN NoRow ELSE doc_embeddings[k]]
    /\ UNCHANGED <<crates, next_id, up_last, db_pc, db_err, b_crate, b_crate_id, batch,
                   b_idx, tx_rows, pre_docs, pre_totals, is_repeat,
                   fetchVars, chunkVars, crawlVars, searchVars, embedVars, runVars, queryVars, prepVars, popVars>>

\* insert_embedding(crate_id, crate_name, doc_path, content, embedding,
\* token_count): one upsert on the pool, called with the id of crate_name.
InsertEmbedding ==
    /\ db_pc = "idle"
    /\ \E name \in Ingested, r \in BatchRows :
        /\ crates[name] # NoCrate
        /\ doc_embeddings' = [doc_embeddings EXCEPT
                                ![<<name, r.path>>] = UpsertedRow(@, crates[name].id, r)]
    /\ UNCHANGED <<crates, next_id, up_last, db_pc, db_err, b_crate, b_crate_id, batch,
                   b_idx, tx_rows, pre_docs, pre_totals, is_repeat,
                   fetchVars, chunkVars, crawlVars, searchVars, embedVars, runVars, queryVars, prepVars, popVars>>

\* insert_embeddings_batch(crate_id, crate_name, embeddings) is called with
\* the id upsert_crate returned for crate_name; self.pool.begin() succeeds.
BatchBegin ==
    /\ db_pc = "idle"
    /\ \E name \in Ingested, b \in Batches :
        /\ crates[name] # NoCrate
        /\ b_crate' = name
        /\ b_crate_id' = crates[name].id
        /\ batch' = b
        /\ pre_totals' = TotalsOf(crates, name)
    /\ is_repeat' = FALSE
    /\ pre_docs' = doc_embeddings
    /\ b_idx' = 0
    /\ tx_rows' = <<>>
    /\ db_pc' = "tx"
    /\ db_err' = "none"
    /\ UNCHANGED <<crates, doc_embeddings, next_id, up_last,
                   fetchVars, chunkVars, crawlVars, searchVars, embedVars, runVars, queryVars, prepVars, popVars>>

\* self.pool.begin() fails: the call returns the error at once.
BatchBeginFails ==
    /\ db_pc = "idle"
    /\ \E name \in Ingested, b \in Batches :
        /\ crates[name] # NoCrate
        /\ b_crate' = name
        /\ b_crate_id' = crates[name].id
        /\ batch' = b
        /\ pre_totals' = TotalsOf(crates, name)
    /\ is_repeat' = FALSE
    /\ pre_docs' = doc_embeddings
    /\ b_idx' = 0
    /\ tx_rows' = <<>>
    /\ db_pc' = "err"
    /\ db_err' = "begin"
    /\ UNCHANGED <<crates, doc_embeddings, next_id, up_last,
                   fetchVars, chunkVars, crawlVars, searchVars, embedVars, runVars, queryVars, prepVars, popVars>>

\* One iteration of the for loop: the upsert of row b_idx + 1, executed on
\* the transaction.
BatchInsertRow ==
    /\ db_pc = "tx"
    /\ b_idx < Len(batch)
    /\ LET r   == batch[b_idx + 1]
           key == <<b_crate, r.path>>
       IN  IF InsertExecutor = "tx"
           THEN /\ tx_rows' = [k \in DOMAIN tx_rows \cup {key} |->
                                 IF k = key
                                 THEN UpsertedRow(TxView(doc_embeddings, tx_rows)[key],
                                                  b_crate_id, r)
                                 ELSE tx_rows[k]]
                /\ UNCHANGED doc_embeddings
           ELSE /\ doc_embeddings' = [doc_embeddings EXCEPT
                                        ![key] = UpsertedRow(@, b_crate_id, r)]
                /\ UNCHANGED tx_rows
    /\ b_idx' = b_idx + 1
    /\ UNCHANGED <<crates, next_id, up_last, db_pc, db_err, b_crate, b_crate_id, batch,
                   pre_docs, pre_totals, is_repeat,
                   fetchVars, chunkVars, crawlVars, searchVars, embedVars, runVars, queryVars, prepVars, popVars>>

\* The upsert of a row fails: `?` returns the error, the transaction is
\* dropped without commit and its writes are rolled back.
BatchInsertFails ==
    /\ db_pc = "tx"
    /\ b_idx < Len(batch)
    /\ tx_rows' = <<>>
    /\ db_pc' = "err"
    /\ db_err' = "insert"
    /\ UNCHANGED <<crates, doc_embeddings, next_id, up_last, b_crate, b_crate_id, batch,
                   b_idx, pre_docs, pre_totals, is_repeat,
                   fetchVars, chunkVars, crawlVars, searchVars, embedVars, runVars, queryVars, prepVars, popVars>>

\* tx.commit(): the writes of the transaction become visible together.
BatchCommit ==
    /\ db_pc = "tx"
    /\ b_idx = Len(batch)
    /\ doc_embeddings' = TxView(doc_embeddings, tx_rows)
    /\ tx_rows' = <<>>
    /\ db_pc' = "committed"
    /\ UNCHANGED <<crates, next_id, up_last, db_err, b_crate, b_crate_id, batch, b_idx,
                   pre_docs, pre_totals, is_repeat,
                   fetchVars, chunkVars, crawlVars, searchVars, embedVars, runVars, queryVars, prepVars, popVars>>

\* tx.commit() fails: nothing is committed.
BatchCommitFails ==
    /\ db_pc = "tx"
    /\ b_idx = Len(batch)
    /\ tx_rows' = <<>>
    /\ db_pc' = "err"
    /\ db_err' = "commit"
    /\ UNCHANGED <<crates, doc_embeddings, next_id, up_last, b_crate, b_crate_id, batch,
                   b_idx, pre_docs, pre_totals, is_repeat,
                   fetchVars, chunkVars, crawlVars, searchVars, embedVars, runVars, queryVars, prepVars, popVars>>

\* self.update_crate_stats(crate_id) after the commit, then Ok(()).
BatchUpdateStats ==
    /\ db_pc = "committed"
    /\ crates' = UpdatedCrateStats(crates, doc_embeddings, b_crate_id)
    /\ db_pc' = "ok"
    /\ UNCHANGED <<doc_embeddings, next_id, up_last, db_err, b_crate, b_crate_id, batch,
                   b_idx, tx_rows, pre_docs, pre_totals, is_repeat,
                   fetchVars, chunkVars, crawlVars, searchVars, embedVars, runVars, queryVars, prepVars, popVars>>

\* self.update_crate_stats(crate_id) fails after the commit: `?` returns
\* the error.
BatchUpdateStatsFails ==
    /\ db_pc = "committed"
    /\ db_pc' = "err"
    /\ db_err' = "stats"
    /\ UNCHANGED <<crates, doc_embeddings, next_id, up_last, b_crate, b_crate_id, batch,
                   b_idx, tx_rows, pre_docs, pre_totals, is_repeat,
                   fetchVars, chunkVars, crawlVars, searchVars, embedVars, runVars, queryVars, prepVars, popVars>>

(***************************************************************************)
(* Retrieval: database.rs search_similar_docs                              *)
(***************************************************************************)

\* Embeddings of integer length, so that every cosine is a multiple of
\* 1 / Scale and distances are computed exactly.
Vectors == {<<1, 0>>, <<0, 1>>, <<-1, 0>>, <<3, 4>>, <<4, 3>>}

\* Distances and similarities are counted in units of 1 / Scale.
Scale == 25

\* The largest limit argument followed.
MaxK == 3

Dot(a, b) == a[1] * b[1] + a[2] * b[2]

Norm(a) == CHOOSE n \in 1..5 : n * n = Dot(a, a)

\* pgvector's embedding <=> $1: the cosine distance, 1 - cos(a, q).
CosineDistance(a, q) == Scale - (Dot(a, q) * Scale) \div (Norm(a) * Norm(q))

\* The smallest step of the f32 result type, in units of 1 / Scale.
F32Step == 5

\* similarity as f32: the f64 value rounded to the nearest f32.
AsF32(x) == ((2 * x + F32Step) \div (2 * F32Step)) * F32Step

\* 1 - (embedding <=> $1) as similarity, read as f64 and cast to f32.
Similarity(a, q) == AsF32(Scale - CosineDistance(a, q))

\* ORDER BY embedding <=> $1 (ascending).
OrderKeyDescending(a, q) == 0 - CosineDistance(a, q)
OrderKey(a, q) == CosineDistance(a, q)

\* WHERE crate_name = $2: the keys of the rows the statement selects.
Selected(docs, name) == {k \in DOMAIN docs : docs[k] # NoRow /\ k[1] = name}

\* The orders in which ORDER BY may deliver the rows of ks: every
\* arrangement with non-decreasing order keys (rows with equal keys come in
\* any order).
SortedOrders(docs, ks, q) ==
    {o \in [1..Cardinality(ks) -> ks] :
        /\ \A i, j \in DOMAIN o : o[i] = o[j] => i = j
        /\ \A i \in 2..Len(o) :
              OrderKey(docs[o[i - 1]].embedding, q) <= OrderKey(docs[o[i]].embedding, q)}

\* LIMIT $3, then the map of every row to (doc_path, content, similarity).
ResultRows(docs, o, q, k) ==
    [i \in 1..Min(k, Len(o)) |->
        [doc_path |-> o[i][2], content |-> docs[o[i]].content,
         similarity |-> Similarity(docs[o[i]].embedding, q)]]

NoSearchOut == [result |-> "none", rows |-> <<>>]

SearchIdle ==
    /\ q_crate = "none"
    /\ q_vec = <<>>
    /\ q_k = 0
    /\ q_db_up = TRUE
    /\ search_pc = "idle"
    /\ search_out = NoSearchOut

\* The paths of the tables searched: three chunks per crate at most.
SearchPaths == {"p1", "p2", "p3"}
SearchKeys == CrateNames \X SearchPaths

\* The tables searched: crate c1 (id 2) with any embedding or no row under
\* each path, crate c2 (id 1) with one chunk at most. The content of a row
\* is a text of its own, written as the key of the row.
SearchTables ==
    { [k \in SearchKeys |->
         IF k[1] = "c1" /\ e1[k[2]] # <<>>
         THEN [crate_id |-> 2, content |-> k, embedding |-> e1[k[2]], token_count |-> 1]
         ELSE IF k[1] = "c2" /\ k[2] = "p1" /\ e2 # <<>>
         THEN [crate_id |-> 1, content |-> k, embedding |-> e2, token_count |-> 1]
         ELSE NoRow] :
      e1 \in [SearchPaths -> Vectors \cup {<<>>}],
      e2 \in {<<>>, <<1, 0>>, <<3, 4>>} }

\* A stored table with up-to-date totals, and the arguments of the call.
SearchInit ==
    /\ doc_embeddings \in SearchTables
    /\ crates = [n \in CrateNames |->
                   LET id == IF n = "c2" THEN 1 ELSE 2
                       t  == TotalsRecomputed(NoTotals, doc_embeddings,
                                              StatsRows(doc_embeddings, id))
                   IN  [id |-> id, version |-> "1.0",
                        total_docs |-> t.total_docs, total_tokens |-> t.total_tokens]]
    /\ next_id = 3
    /\ ClientIdle
    /\ q_crate \in CrateNames
    /\ q_vec \in Vectors
    /\ q_k \in 0..MaxK
    /\ q_db_up \in BOOLEAN
    /\ search_pc = "call"
    /\ search_out = NoSearchOut

\* search_similar_docs(crate_name, query_embedding, limit)
SearchCall ==
    /\ search_pc = "call"
    /\ IF q_db_up
       THEN \E o \in SortedOrders(doc_embeddings, Selected(doc_embeddings, q_crate), q_vec) :
              search_out' = [result |-> "Ok",
                             rows |-> ResultRows(doc_embeddings, o, q_vec, q_k)]
       ELSE search_out' = [result |-> "Database", rows |-> <<>>]
    /\ search_pc' = "done"
    /\ UNCHANGED <<q_crate, q_vec, q_k, q_db_up, fetchVars, chunkVars, crawlVars, dbVars,
                   embedVars, runVars, queryVars, prepVars, popVars>>

(***************************************************************************)
(* Embedding orchestrator: embeddings.rs generate_embeddings               *)
(***************************************************************************)

\* const CONCURRENCY_LIMIT: usize = 8
CONCURRENCY_LIMIT == 8

\* The largest number of chunks of a run followed.
MaxChunks == 9

\* What a provider call for one text comes back with: an error, or Ok with
\* this number of vectors.
ProviderResponses == {"error", "0 vectors", "1 vector", "2 vectors"}

\* embeddings.len() of an Ok response.
VectorCount(resp) ==
    IF resp = "0 vectors" THEN 0 ELSE IF resp = "1 vector" THEN 1 ELSE 2

NoErr == [chunk |-> 0, error |-> "none", got |-> 0]

\* The value of the async block of chunk i when its provider call came back
\* with resp: `?` passes the provider's error on, a response whose length
\* is not 1 is ServerError::Internal("Mismatch in response length ..").
TaskResultUnchecked(i, resp) ==
    IF resp = "error" THEN [chunk |-> i, error |-> "Provider", got |-> 0]
    ELSE NoErr
TaskResult(i, resp) ==
    IF resp = "error" THEN [chunk |-> i, error |-> "Provider", got |-> 0]
    ELSE IF VectorCount(resp) # 1
         THEN [chunk |-> i, error |-> "Mismatch", got |-> VectorCount(resp)]
    ELSE NoErr

\* buffer_unordered(CONCURRENCY_LIMIT): the stream is polled for the next
\* future only while fewer than CONCURRENCY_LIMIT futures are in progress.
CanStartOneMore(n) == n <= CONCURRENCY_LIMIT
CanStart(n) == n < CONCURRENCY_LIMIT

\* The loop over the collected results: the first Err is returned and the
\* embeddings pushed so far are dropped with it; without an Err, all of them.
CollectedSkippingErrors(ok, err) ==
    [result |-> "Ok", error |-> NoErr, embeddings |-> ok]
Collected(ok, err) ==
    IF err # NoErr
    THEN [result |-> "Err", error |-> err, embeddings |-> 0]
    ELSE [result |-> "Ok", error |-> NoErr, embeddings |-> ok]

NoEmbedOut == [result |-> "none"]

\* The texts of the chunks; two chunks of a worklist can hold the same text.
ChunkTexts == {"t1", "t2", "t3"}

\* all_chunks[i - 1]: the path and the content of chunk i.
PathOf(i) == [chunk |-> i]
ContentOf(i) == IF i % 3 = 1 THEN "t1" ELSE IF i % 3 = 2 THEN "t2" ELSE "t3"

\* bpe.encode_with_special_tokens(&content).len()
TokensOf(text) == IF text = "t1" THEN 1 ELSE IF text = "t2" THEN 2 ELSE 3

\* The vector the provider answers a request for one text with.
VectorOf(text) == [embedding_of |-> text]

\* The chunk whose path and content a result carries: the async block of
\* chunk i owns path and content_clone, whatever its place pos in the
\* order of completion.
ResultChunkByPosition(i, pos) == pos
ResultChunk(i, pos) == i

\* Ok((path, content_clone, embedding_array, token_count)) of the block of
\* chunk i, the pos-th to complete.
TaskTuple(i, pos) ==
    [path |-> PathOf(ResultChunk(i, pos)),
     content |-> ContentOf(ResultChunk(i, pos)),
     vector |-> VectorOf(ContentOf(i)),
     tokens |-> TokensOf(ContentOf(i))]

\* total_processed_tokens += tokens over the results.
RECURSIVE TotalTokens(_)
TotalTokens(results) ==
    IF results = {} THEN 0
    ELSE LET r == CHOOSE x \in results : TRUE
         IN  r.tokens + TotalTokens(results \ {r})

\* Ok((embeddings_vec, total_processed_tokens))
NoReturn == [embeddings_vec |-> {}, total |-> 0]
Returned3(results) ==
    [embeddings_vec |-> {[path |-> r.path, content |-> r.content, vector |-> r.vector] :
                            r \in results},
     total |-> TotalTokens(results)]

EmbedIdle ==
    /\ e_chunks = 0
    /\ e_next = 0
    /\ e_in_flight = {}
    /\ e_ok = 0
    /\ e_first_err = NoErr
    /\ e_mismatched = FALSE
    /\ e_pc = "idle"
    /\ e_out = NoEmbedOut
    /\ e_results = {}
    /\ e_reordered = FALSE
    /\ e_returned = NoReturn

\* all_chunks is prepared; the stream has not been polled.
EmbedInit ==
    /\ e_chunks \in 0..MaxChunks
    /\ e_next = 0
    /\ e_in_flight = {}
    /\ e_ok = 0
    /\ e_first_err = NoErr
    /\ e_mismatched = FALSE
    /\ e_pc = "run"
    /\ e_out = NoEmbedOut
    /\ e_results = {}
    /\ e_reordered = FALSE
    /\ e_returned = NoReturn

\* The stream hands out the next chunk and its future sends the provider
\* call.
EmbedStart ==
    /\ e_pc = "run"
    /\ e_next < e_chunks
    /\ CanStart(Cardinality(e_in_flight))
    /\ e_next' = e_next + 1
    /\ e_in_flight' = e_in_flight \cup {e_next + 1}
    /\ UNCHANGED <<e_chunks, e_ok, e_first_err, e_mismatched, e_pc, e_out,
                   e_results, e_reordered, e_returned,
                   fetchVars, chunkVars, crawlVars, dbVars, searchVars, runVars, queryVars, prepVars, popVars>>

\* The provider call of one chunk in flight returns and the result of its
\* future is pushed to the collected Vec. buffer_unordered polls its futures
\* only after it has taken from the stream all it can hold, so a call
\* returns only when the buffer is full or the chunks are exhausted.
EmbedComplete ==
    /\ e_pc = "run"
    /\ e_next = e_chunks \/ ~CanStart(Cardinality(e_in_flight))
    /\ \E i \in e_in_flight, resp \in ProviderResponses :
        /\ e_in_flight' = e_in_flight \ {i}
        /\ IF TaskResult(i, resp) = NoErr
           THEN e_ok' = e_ok + 1 /\ UNCHANGED e_first_err
           ELSE /\ e_first_err' = IF e_first_err = NoErr
                                  THEN TaskResult(i, resp) ELSE e_first_err
                /\ UNCHANGED e_ok
        /\ e_mismatched' = (e_mismatched \/ (resp # "error" /\ VectorCount(resp) # 1))
        /\ e_results' = IF e_first_err' # NoErr THEN {}
                        ELSE e_results \cup
                                {TaskTuple(i, e_next - Cardinality(e_in_flight) + 1)}
        /\ e_reordered' = (e_reordered \/ \E j \in e_in_flight : j < i)
    /\ UNCHANGED <<e_chunks, e_next, e_pc, e_out, e_returned,
                   fetchVars, chunkVars, crawlVars, dbVars, searchVars, runVars, queryVars, prepVars, popVars>>

\* collect() has every result: the loop over them decides the return value.
EmbedCollect ==
    /\ e_pc = "run"
    /\ e_next = e_chunks
    /\ e_in_flight = {}
    /\ e_out' = Collected(e_ok, e_first_err)
    /\ e_returned' = IF e_first_err = NoErr THEN Returned3(e_results) ELSE NoReturn
    /\ e_pc' = "done"
    /\ UNCHANGED <<e_chunks, e_next, e_in_flight, e_ok, e_first_err, e_mismatched,
                   e_results, e_reordered,
                   fetchVars, chunkVars, crawlVars, dbVars, searchVars, runVars, queryVars, prepVars, popVars>>

(***************************************************************************)
(* Ingestion run: the task of one crate in bin/populate_all.rs             *)
(***************************************************************************)

RunIdle ==
    /\ run_pc = "idle"
    /\ run_err = "none"
    /\ run_version = "NULL"
    /\ run_pre_crates = <<>>
    /\ run_pre_docs = <<>>

\* The store before the run: crate c2 (id 1) as an earlier run stored it,
\* crate c1 unknown or stored by an earlier run (id 2) with or without a
\* version; no call in progress. The run is about to crawl.
IngestInit ==
    /\ \E st2 \in StoredBefore, st1 \in StoredBefore, v1 \in Versions :
        LET stored(n) == IF n = "c2" THEN st2 ELSE st1
            idOf(n)   == IF n = "c2" THEN 1 ELSE 2
            docs == [k \in Keys |-> IF k[2] \in DOMAIN stored(k[1])
                                    THEN RowOf(idOf(k[1]), stored(k[1])[k[2]])
                                    ELSE NoRow]
        IN  /\ doc_embeddings = docs
            /\ crates =
                 [n \in CrateNames |->
                    IF n = "c1" /\ st1 = <<>> THEN NoCrate
                    ELSE LET t == TotalsRecomputed(NoTotals, docs, StatsRows(docs, idOf(n)))
                         IN  [id |-> idOf(n),
                              version |-> IF n = "c2" THEN "1.0" ELSE v1,
                              total_docs |-> t.total_docs,
                              total_tokens |-> t.total_tokens]]
            /\ next_id = IF st1 = <<>> THEN 2 ELSE 3
    /\ ClientIdle
    /\ run_pc = "crawl"
    /\ run_err = "none"
    /\ run_version = "NULL"
    /\ run_pre_crates = crates
    /\ run_pre_docs = doc_embeddings

\* load_documents_from_docs_rs(..).await? returns an error.
RunCrawlFails ==
    /\ run_pc = "crawl"
    /\ run_pc' = "failed"
    /\ run_err' = "crawl"
    /\ UNCHANGED <<run_version, run_pre_crates, run_pre_docs,
                   fetchVars, chunkVars, crawlVars, dbVars, searchVars, embedVars, queryVars, prepVars, popVars>>

\* documents.is_empty(): the task returns Ok without storing anything.
RunCrawlEmpty ==
    /\ run_pc = "crawl"
    /\ run_pc' = "ok"
    /\ UNCHANGED <<run_err, run_version, run_pre_crates, run_pre_docs,
                   fetchVars, chunkVars, crawlVars, dbVars, searchVars, embedVars, queryVars, prepVars, popVars>>

\* The crawl returned documents and maybe a version; generate_embeddings is
\* called and has prepared its chunks.
RunCrawlOk ==
    /\ run_pc = "crawl"
    /\ run_version' \in Versions
    /\ e_chunks' \in 1..MaxBatch
    /\ e_next' = 0
    /\ e_in_flight' = {}
    /\ e_ok' = 0
    /\ e_first_err' = NoErr
    /\ e_mismatched' = FALSE
    /\ e_results' = {}
    /\ e_reordered' = FALSE
    /\ e_returned' = NoReturn
    /\ e_pc' = "run"
    /\ e_out' = NoEmbedOut
    /\ run_pc' = "embed"
    /\ UNCHANGED <<run_err, run_pre_crates, run_pre_docs,
                   fetchVars, chunkVars, crawlVars, dbVars, searchVars, queryVars, prepVars, popVars>>

\* generate_embeddings(&documents).await? returned an error.
RunEmbedFails ==
    /\ run_pc = "embed"
    /\ e_pc = "done"
    /\ e_out.result = "Err"
    /\ run_pc' = "failed"
    /\ run_err' = e_out.error.error
    /\ UNCHANGED <<run_version, run_pre_crates, run_pre_docs,
                   fetchVars, chunkVars, crawlVars, dbVars, searchVars, embedVars, queryVars, prepVars, popVars>>

\* generate_embeddings returned the embeddings.
RunEmbedOk ==
    /\ run_pc = "embed"
    /\ e_pc = "done"
    /\ e_out.result = "Ok"
    /\ run_pc' = "upsert"
    /\ UNCHANGED <<run_err, run_version, run_pre_crates, run_pre_docs,
                   fetchVars, chunkVars, crawlVars, dbVars, searchVars, embedVars, queryVars, prepVars, popVars>>

\* db.upsert_crate(&crate_name, crate_version.as_deref()).await?
RunUpsert ==
    /\ run_pc = "upsert"
    /\ \E name \in Ingested :
        /\ crates' = [crates EXCEPT ![name] = UpsertedCrate(@, next_id, run_version)]
        /\ next_id' = IF crates[name] = NoCrate THEN next_id + 1 ELSE next_id
        /\ up_last' = UpsertCall(crates[name], name, run_version, crates'[name])
    /\ run_pc' = "batch"
    /\ UNCHANGED <<doc_embeddings, db_pc, db_err, b_crate, b_crate_id, batch,
                   b_idx, tx_rows, pre_docs, pre_totals, is_repeat,
                   run_err, run_version, run_pre_crates, run_pre_docs,
                   fetchVars, chunkVars, crawlVars, searchVars, embedVars, queryVars, prepVars, popVars>>

\* upsert_crate fails.
RunUpsertFails ==
    /\ run_pc = "upsert"
    /\ run_pc' = "failed"
    /\ run_err' = "upsert"
    /\ UNCHANGED <<run_version, run_pre_crates, run_pre_docs,
                   fetchVars, chunkVars, crawlVars, dbVars, searchVars, embedVars, queryVars, prepVars, popVars>>

\* db.insert_embeddings_batch(crate_id, &crate_name, &batch_data) is called
\* with one row per embedding of the run.
RunBatchBegin ==
    /\ run_pc = "batch"
    /\ BatchBegin
    /\ Len(batch') = e_out.embeddings

RunBatchBeginFails ==
    /\ run_pc = "batch"
    /\ BatchBeginFails
    /\ Len(batch') = e_out.embeddings

\* insert_embeddings_batch(..).await? has returned: the task ends with Ok or
\* with the error.
RunBatchReturned ==
    /\ run_pc = "batch"
    /\ Returned
    /\ run_pc' = IF db_pc = "ok" THEN "ok" ELSE "failed"
    /\ run_err' = db_err
    /\ UNCHANGED <<run_version, run_pre_crates, run_pre_docs,
                   fetchVars, chunkVars, crawlVars, dbVars, searchVars, embedVars, queryVars, prepVars, popVars>>

(***************************************************************************)
(* Retrieval path: query_rust_docs of server.rs and bin/http_server.rs     *)
(***************************************************************************)

\* search_similar_docs(target_crate, &question_vector, 3)
SERVER_LIMIT == 3
\* search_similar_docs(&args.crate_name, &question_embedding, 10)
HTTP_LIMIT == 10

QueryLimit(impl) == IF impl = "server" THEN SERVER_LIMIT ELSE HTTP_LIMIT

\* EmbeddingProvider::generate_embeddings, OpenAI and Voyage AI alike: an
\* error of the request or of the parsing is returned; otherwise the
\* vectors of response.data are returned as they came, however many.
ProviderResult(resp) ==
    IF resp = "error" THEN [result |-> "Err", vectors |-> 0]
    ELSE [result |-> "Ok", vectors |-> VectorCount(resp)]

\* embeddings.into_iter().next() / question_embeddings.first(): whether the
\* query goes on with the first vector of the response.
TakesFirstVector(n) == n >= 1

\* Where the query goes when the embedding call returned an error: `?`
\* returns the error.
AfterEmbedErrorRetry(calls) == IF calls < 2 THEN "embed" ELSE "done"
AfterEmbedError(calls) == "done"

QueryIdle ==
    /\ qr_impl = "none"
    /\ qr_crate = "none"
    /\ qr_pc = "idle"
    /\ qr_embed_calls = 0
    /\ qr_batch = 0
    /\ qr_resp = "none"
    /\ qr_vec = <<>>
    /\ qr_search_calls = 0
    /\ qr_llm_calls = 0
    /\ qr_results = <<>>
    /\ qr_out = "none"

\* The tables the queries run on: those of SearchTables whose rows hold one
\* of two embeddings.
QueryTables ==
    {t \in SearchTables :
        \A k \in DOMAIN t : t[k] # NoRow => t[k].embedding \in {<<1, 0>>, <<3, 4>>}}

\* A stored table and a query for one crate, on one of the two servers.
QueryInit ==
    /\ doc_embeddings \in QueryTables
    /\ crates = [n \in CrateNames |->
                   LET id == IF n = "c2" THEN 1 ELSE 2
                       t  == TotalsRecomputed(NoTotals, doc_embeddings,
                                              StatsRows(doc_embeddings, id))
                   IN  [id |-> id, version |-> "1.0",
                        total_docs |-> t.total_docs, total_tokens |-> t.total_tokens]]
    /\ next_id = 3
    /\ ClientIdle
    /\ qr_impl \in {"server", "http"}
    /\ qr_crate \in CrateNames
    /\ qr_pc = "start"
    /\ qr_embed_calls = 0
    /\ qr_batch = 0
    /\ qr_resp = "none"
    /\ qr_vec = <<>>
    /\ qr_search_calls = 0
    /\ qr_llm_calls = 0
    /\ qr_results = <<>>
    /\ qr_out = "none"

QueryFrame == UNCHANGED <<qr_impl, qr_crate, fetchVars, chunkVars, crawlVars, dbVars,
                          searchVars, embedVars, runVars, prepVars, popVars>>

\* http: !self.available_crates.contains(&args.crate_name): invalid_params.
QueryCrateNotAvailable ==
    /\ qr_pc = "start" /\ qr_impl = "http"
    /\ qr_pc' = "done"
    /\ qr_out' = "crate not available"
    /\ UNCHANGED <<qr_embed_calls, qr_batch, qr_resp, qr_vec, qr_search_calls,
                   qr_llm_calls, qr_results>>
    /\ QueryFrame

\* The query goes on: to the has_embeddings check (http), or straight to
\* the embedding of the question (server).
QueryProceed ==
    /\ qr_pc = "start"
    /\ qr_pc' = IF qr_impl = "http" THEN "precheck" ELSE "embed"
    /\ UNCHANGED <<qr_embed_calls, qr_batch, qr_resp, qr_vec, qr_search_calls,
                   qr_llm_calls, qr_results, qr_out>>
    /\ QueryFrame

\* http: self.database.has_embeddings(&args.crate_name) fails, or finds no
\* row (invalid_params), or finds one.
QueryPrecheck ==
    /\ qr_pc = "precheck"
    /\ \/ qr_pc' = "done" /\ qr_out' = "database error"
       \/ /\ ~has_embeddings(doc_embeddings, qr_crate)
          /\ qr_pc' = "done" /\ qr_out' = "no embeddings"
       \/ /\ has_embeddings(doc_embeddings, qr_crate)
          /\ qr_pc' = "embed" /\ UNCHANGED qr_out
    /\ UNCHANGED <<qr_embed_calls, qr_batch, qr_resp, qr_vec, qr_search_calls,
                   qr_llm_calls, qr_results>>
    /\ QueryFrame

\* generate_embeddings(&[question]) and the first vector of its response.
QueryEmbed ==
    /\ qr_pc = "embed"
    /\ qr_embed_calls' = qr_embed_calls + 1
    /\ qr_batch' = 1
    /\ \E resp \in ProviderResponses, v \in Vectors :
        /\ qr_resp' = resp
        /\ IF ProviderResult(resp).result = "Err"
           THEN /\ qr_pc' = AfterEmbedError(qr_embed_calls + 1)
                /\ qr_out' = IF qr_pc' = "done" THEN "embedding error" ELSE qr_out
                /\ UNCHANGED qr_vec
           ELSE IF TakesFirstVector(ProviderResult(resp).vectors)
           THEN /\ qr_vec' = v
                /\ qr_pc' = "search"
                /\ UNCHANGED qr_out
           ELSE /\ qr_pc' = "done"
                /\ qr_out' = "no embedding"
                /\ UNCHANGED qr_vec
    /\ UNCHANGED <<qr_search_calls, qr_llm_calls, qr_results>>
    /\ QueryFrame

\* search_similar_docs(crate, &question_vector, limit) fails, or returns
\* the rows; http answers at once, server goes on to the chat completion
\* when there are rows.
QuerySearch ==
    /\ qr_pc = "search"
    /\ qr_search_calls' = qr_search_calls + 1
    /\ \/ /\ qr_pc' = "done" /\ qr_out' = "database error"
          /\ UNCHANGED qr_results
       \/ \E o \in SortedOrders(doc_embeddings, Selected(doc_embeddings, qr_crate), qr_vec) :
            /\ qr_results' = ResultRows(doc_embeddings, o, qr_vec, QueryLimit(qr_impl))
            /\ IF qr_impl = "server" /\ qr_results' # <<>>
               THEN qr_pc' = "llm" /\ UNCHANGED qr_out
               ELSE qr_pc' = "done" /\ qr_out' = "Ok"
    /\ UNCHANGED <<qr_embed_calls, qr_batch, qr_resp, qr_vec, qr_llm_calls>>
    /\ QueryFrame

\* server: openai_client.chat().create(chat_request) fails or answers.
QueryLlm ==
    /\ qr_pc = "llm"
    /\ qr_llm_calls' = qr_llm_calls + 1
    /\ qr_pc' = "done"
    /\ qr_out' \in {"chat error", "Ok"}
    /\ UNCHANGED <<qr_embed_calls, qr_batch, qr_resp, qr_vec, qr_search_calls,
                   qr_results>>
    /\ QueryFrame

(***************************************************************************)
(* generate_embeddings: the preparation of all_chunks                      *)
(***************************************************************************)

\* const TOKEN_LIMIT: usize = 8000 and const CHUNK_OVERLAP: usize = 200,
\* scaled down to texts of a few tokens: the limit handed to _chunk_content
\* is TOKEN_LIMIT - CHUNK_OVERLAP, below TOKEN_LIMIT, as in the source.
TOKEN_LIMIT == 3
CHUNK_OVERLAP == 1
\* The unit of 20,000 tokens at this scale: more than twice
\* TOKEN_LIMIT - CHUNK_OVERLAP and at most three times.
UNIT_TOKENS == 5

MaxUnitLen == 7

UnitTexts == UNION {[1..n -> Alphabet] : n \in 1..MaxUnitLen}

\* if chunk_count > 1 { format!("{} [chunk {}/{}]", doc.path, chunk_index + 1,
\* chunk_count) } else { doc.path.clone() }: the unit's path and the two
\* numbers of the suffix, or no suffix. chunk_index counts from 0.
ChunkPath(path, chunk_index, chunk_count) ==
    IF chunk_count > 1
    THEN [path |-> path, suffix |-> <<chunk_index + 1, chunk_count>>]
    ELSE [path |-> path, suffix |-> <<>>]

\* if token_count > TOKEN_LIMIT
ExceedsLimit(token_count) == token_count > TOKEN_LIMIT

\* The body of the loop over documents for one document: the entries it
\* pushes to all_chunks.
PreparedChunks(path, text) ==
    IF ExceedsLimit(TokenCount(text))
    THEN LET cs == chunk_content(text, TOKEN_LIMIT - CHUNK_OVERLAP)
         IN  [i \in 1..Len(cs) |->
                [chunk_path |-> ChunkPath(path, i - 1, Len(cs)), chunk |-> cs[i]]]
    ELSE <<[chunk_path |-> [path |-> path, suffix |-> <<>>], chunk |-> text]>>

PrepIdle ==
    /\ doc_content = <<>>
    /\ prep_pc = "idle"
    /\ all_chunks = <<>>

PrepInit ==
    /\ doc_content \in UnitTexts
    /\ prep_pc = "prepare"
    /\ all_chunks = <<>>

Prepare ==
    /\ prep_pc = "prepare"
    /\ all_chunks' = PreparedChunks("p", doc_content)
    /\ prep_pc' = "done"
    /\ UNCHANGED <<doc_content, fetchVars, chunkVars, crawlVars, dbVars, searchVars,
                   embedVars, runVars, queryVars, popVars>>

(***************************************************************************)
(* Parallel population: bin/populate_all.rs main                           *)
(***************************************************************************)

\* crates_to_populate: the enabled crates without embeddings, in the order
\* of the configuration.
PopCrates == {"k1", "k2", "k3"}

\* The index i of the task of a crate, and total = enabled_crates.len().
PopIndex(c) == IF c = "k1" THEN 0 ELSE IF c = "k2" THEN 1 ELSE 2
PopTotal == Cardinality(PopCrates)

\* The awaits of a task where `?` can return an error:
\* load_documents_from_docs_rs, generate_embeddings, upsert_crate and
\* insert_embeddings_batch.
PopFallible == {"load", "embed", "upsert", "insert"}

\* try_join_all(tasks).await?: when a task resolves to Err the join
\* resolves to that error at once and the futures of the other tasks are
\* dropped where they stand; a task that has resolved keeps its value.
AfterTaskError(tasks, c) ==
    [d \in DOMAIN tasks |->
        IF d = c THEN "failed"
        ELSE IF tasks[d] = "done" THEN "done" ELSE "dropped"]

\* if i < total - 1 { sleep(2 s) }
AfterInsert(c) == IF PopIndex(c) < PopTotal - 1 THEN "sleep" ELSE "done"

PopIdle ==
    /\ pa_task = [c \in PopCrates |-> "idle"]
    /\ pa_stored = [c \in PopCrates |-> "nothing"]
    /\ pa_main = "idle"

\* The tasks are built and main awaits try_join_all.
PopInit ==
    /\ pa_task = [c \in PopCrates |-> "load"]
    /\ pa_stored = [c \in PopCrates |-> "nothing"]
    /\ pa_main = "joining"

PopFrame == UNCHANGED <<fetchVars, chunkVars, crawlVars, dbVars, searchVars, embedVars,
                        runVars, queryVars, prepVars>>

\* An await of the task of c returns Ok and the task goes on to the next.
PopStep(c, from, to) ==
    /\ pa_main = "joining"
    /\ pa_task[c] = from
    /\ pa_task' = [pa_task EXCEPT ![c] = to]

\* load_documents_from_docs_rs returns documents.
PopLoadOk ==
    /\ \E c \in PopCrates : PopStep(c, "load", "embed")
    /\ UNCHANGED <<pa_stored, pa_main>>
    /\ PopFrame

\* load_documents_from_docs_rs returns no document: the task returns Ok.
PopLoadEmpty ==
    /\ \E c \in PopCrates : PopStep(c, "load", "done")
    /\ UNCHANGED <<pa_stored, pa_main>>
    /\ PopFrame

\* generate_embeddings returns Ok.
PopEmbedOk ==
    /\ \E c \in PopCrates : PopStep(c, "embed", "upsert")
    /\ UNCHANGED <<pa_stored, pa_main>>
    /\ PopFrame

\* upsert_crate returns the id: the crate record is written.
PopUpsertOk ==
    /\ \E c \in PopCrates :
        /\ PopStep(c, "upsert", "insert")
        /\ pa_stored' = [pa_stored EXCEPT ![c] = "record"]
    /\ UNCHANGED pa_main
    /\ PopFrame

\* insert_embeddings_batch returns Ok: the chunks are written.
PopInsertOk ==
    /\ \E c \in PopCrates :
        /\ PopStep(c, "insert", AfterInsert(c))
        /\ pa_stored' = [pa_stored EXCEPT ![c] = "chunks"]
    /\ UNCHANGED pa_main
    /\ PopFrame

\* The 2 s sleep of a task that is not the last is over: the task returns Ok.
PopSleepDone ==
    /\ \E c \in PopCrates : PopStep(c, "sleep", "done")
    /\ UNCHANGED <<pa_stored, pa_main>>
    /\ PopFrame

\* An await of the task of c returns an error and `?` returns it from the
\* task: try_join_all resolves to it and main returns it.
PopTaskFails ==
    /\ pa_main = "joining"
    /\ \E c \in PopCrates :
        /\ pa_task[c] \in PopFallible
        /\ pa_task' = AfterTaskError(pa_task, c)
    /\ pa_main' = "err"
    /\ UNCHANGED pa_stored
    /\ PopFrame

\* Every task has returned Ok: try_join_all resolves to the results.
PopJoinOk ==
    /\ pa_main = "joining"
    /\ \A c \in PopCrates : pa_task[c] = "done"
    /\ pa_main' = "ok"
    /\ UNCHANGED <<pa_task, pa_stored>>
    /\ PopFrame

(***************************************************************************)
(* Specifications                                                          *)
(***************************************************************************)

FetchNext == FetchCall
FetchSpecInit == FetchInit /\ ChunkIdle /\ CrawlIdle /\ DbIdle /\ SearchIdle /\ EmbedIdle /\ RunIdle /\ QueryIdle
        /\ PrepIdle /\ PopIdle
FetchSpec == FetchSpecInit /\ [][FetchNext]_vars

ChunkNext == ChunkCall
ChunkSpecInit == ChunkInit /\ FetchIdle /\ CrawlIdle /\ DbIdle /\ SearchIdle /\ EmbedIdle /\ RunIdle /\ QueryIdle
        /\ PrepIdle /\ PopIdle
ChunkSpec == ChunkSpecInit /\ [][ChunkNext]_vars

CrawlNext ==
    \/ CrawlFrontierEmpty
    \/ CrawlBudgetReached
    \/ CrawlSkipVisited
    \/ CrawlVisit
    \/ CrawlFetchFailed
    \/ CrawlFetchOk
CrawlSpecInit == CrawlInit /\ FetchIdle /\ ChunkIdle /\ DbIdle /\ SearchIdle /\ EmbedIdle /\ RunIdle /\ QueryIdle
        /\ PrepIdle /\ PopIdle
\* The crawl is one sequential async function: whenever it can take a step
\* (every await returns: requests time out after 30 s), it takes one.
CrawlSpec == CrawlSpecInit /\ [][CrawlNext]_vars /\ WF_vars(CrawlNext)

DbNext ==
    \/ UpsertCrate
    \/ InsertEmbedding
    \/ DeleteCrateEmbeddings
    \/ DbReturn
    \/ BatchRepeat
    \/ BatchBegin
    \/ BatchBeginFails
    \/ BatchInsertRow
    \/ BatchInsertFails
    \/ BatchCommit
    \/ BatchCommitFails
    \/ BatchUpdateStats
    \/ BatchUpdateStatsFails
DbSpecInit ==
    DbInit /\ FetchIdle /\ ChunkIdle /\ CrawlIdle /\ SearchIdle /\ EmbedIdle /\ RunIdle /\ QueryIdle
        /\ PrepIdle /\ PopIdle
DbSpec == DbSpecInit /\ [][DbNext]_vars

SearchNext == SearchCall
SearchSpecInit ==
    SearchInit /\ FetchIdle /\ ChunkIdle /\ CrawlIdle /\ EmbedIdle /\ RunIdle /\ QueryIdle
        /\ PrepIdle /\ PopIdle
SearchSpec == SearchSpecInit /\ [][SearchNext]_vars

EmbedNext ==
    \/ EmbedStart
    \/ EmbedComplete
    \/ EmbedCollect
EmbedSpecInit ==
    EmbedInit /\ FetchIdle /\ ChunkIdle /\ CrawlIdle /\ DbIdle /\ SearchIdle /\ RunIdle /\ QueryIdle
        /\ PrepIdle /\ PopIdle
EmbedSpec == EmbedSpecInit /\ [][EmbedNext]_vars

IngestNext ==
    \/ RunCrawlFails
    \/ RunCrawlEmpty
    \/ RunCrawlOk
    \/ EmbedStart
    \/ EmbedComplete
    \/ EmbedCollect
    \/ RunEmbedFails
    \/ RunEmbedOk
    \/ RunUpsert
    \/ RunUpsertFails
    \/ RunBatchBegin
    \/ RunBatchBeginFails
    \/ BatchInsertRow
    \/ BatchInsertFails
    \/ BatchCommit
    \/ BatchCommitFails
    \/ BatchUpdateStats
    \/ BatchUpdateStatsFails
    \/ RunBatchReturned
IngestSpecInit ==
    IngestInit /\ FetchIdle /\ ChunkIdle /\ CrawlIdle /\ SearchIdle /\ EmbedIdle /\ QueryIdle
        /\ PrepIdle /\ PopIdle
IngestSpec == IngestSpecInit /\ [][IngestNext]_vars

QueryNext ==
    \/ QueryCrateNotAvailable
    \/ QueryProceed
    \/ QueryPrecheck
    \/ QueryEmbed
    \/ QuerySearch
    \/ QueryLlm
QuerySpecInit ==
    QueryInit /\ FetchIdle /\ ChunkIdle /\ CrawlIdle /\ SearchIdle /\ EmbedIdle /\ RunIdle
        /\ PrepIdle /\ PopIdle
QuerySpec == QuerySpecInit /\ [][QueryNext]_vars

PrepNext == Prepare
PrepSpecInit ==
    PrepInit /\ FetchIdle /\ ChunkIdle /\ CrawlIdle /\ DbIdle /\ SearchIdle /\ EmbedIdle
        /\ RunIdle /\ QueryIdle /\ PopIdle
PrepSpec == PrepSpecInit /\ [][PrepNext]_vars

PopNext ==
    \/ PopLoadOk
    \/ PopLoadEmpty
    \/ PopEmbedOk
    \/ PopUpsertOk
    \/ PopInsertOk
    \/ PopSleepDone
    \/ PopTaskFails
    \/ PopJoinOk
PopSpecInit ==
    PopInit /\ FetchIdle /\ ChunkIdle /\ CrawlIdle /\ DbIdle /\ SearchIdle /\ EmbedIdle
        /\ RunIdle /\ QueryIdle /\ PrepIdle
PopSpec == PopSpecInit /\ [][PopNext]_vars

(***************************************************************************)
(* Claims about the fetcher                                                *)
(***************************************************************************)

FetchDone == fetch_pc = "done"

\* The responses the finished call has consumed were all HTTP 429.
All429 == \A i \in 1..fetch_out.requests : responses[i] = "s429"

StrictlyIncreasing(seq) == \A i \in 2..Len(seq) : seq[i] > seq[i - 1]

\* C7: when every response is HTTP 429, fetch_with_retry makes exactly
\* max_retries retries (max_retries + 1 requests), every wait before a retry
\* is strictly greater than the wait before it, and the call fails with
\* DocLoaderError::RateLimited. The bound is a configured one: at most the
\* MAX_RETRIES every caller passes.
C7_RateLimitedBackoff ==
    (FetchDone /\ All429 /\ max_retries <= MAX_RETRIES) =>
        /\ fetch_out.result = "RateLimited"
        /\ fetch_out.requests = max_retries + 1
        /\ Len(fetch_out.waits) = max_retries
        /\ StrictlyIncreasing(fetch_out.waits)

\* C7 witness: a finished call of the crawler's configuration (3 retries)
\* that saw only 429 responses and waited three times.
C7_Witness ==
    /\ FetchDone /\ All429
    /\ max_retries = MAX_RETRIES
    /\ Len(fetch_out.waits) = MAX_RETRIES

\* C8: a response with a non-2xx status other than 429 is terminal: it is
\* the last response the call consumes, and the call returns an error.
C8_HttpErrorIsTerminal ==
    FetchDone =>
        \A i \in 1..fetch_out.requests :
            responses[i] = "http_err" =>
                /\ i = fetch_out.requests
                /\ fetch_out.result # "Ok"

(***************************************************************************)
(* Claims about the crawler                                                *)
(***************************************************************************)

CrawlDone == crawl_pc = "done"

\* No URL is handed to fetch_with_retry twice.
NoRefetch ==
    \A i, j \in 1..Len(fetched) : fetched[i] = fetched[j] => i = j

\* C1: whatever the links of the pages and the outcomes of the fetches, the
\* crawl never fetches the same URL twice, hands at most max_pages URLs to
\* fetch_with_retry, and terminates.
C1_CrawlBoundedNoRefetch ==
    /\ [](NoRefetch /\ Len(fetched) <= max_pages)
    /\ <>CrawlDone

\* C1 witness: a crawl that used up a budget of four pages and was stopped
\* when it popped a link that leads back to a page visited before.
C1_Witness ==
    /\ CrawlDone
    /\ max_pages = 4
    /\ Len(fetched) = max_pages
    /\ cur_url \in visited
    /\ cur_url # fetched[Len(fetched)]

(***************************************************************************)
(* Claims about the chunker                                                *)
(***************************************************************************)

ChunkDone == chunk_pc = "done"

\* C9: a content whose token count is at most token_limit comes back as
\* exactly one chunk, equal to the content.
C9_WithinLimitOneChunk ==
    (ChunkDone /\ TokenCount(content) <= token_limit) => chunks = <<content>>

\* C9 witness: a content of several sentences that fits the limit exactly.
C9_Witness ==
    /\ ChunkDone
    /\ TokenCount(content) = token_limit
    /\ Len(SplitSentences(content)) > 1
    /\ chunks = <<content>>

\* C10: every returned chunk is non-empty and has at most token_limit
\* tokens.
C10_ChunksWithinLimit ==
    ChunkDone =>
        \A i \in 1..Len(chunks) :
            /\ chunks[i] # <<>>
            /\ TokenCount(chunks[i]) <= token_limit

\* The call split the content (it did not return at once) and no sentence
\* went through the split-by-tokens fallback.
SplitWithoutFallback ==
    /\ ~FitsLimit(TokenCount(content), token_limit)
    /\ \A i \in DOMAIN SplitSentences(content) :
          TokenCount(SentenceWithPeriod(SplitSentences(content)[i])) <= token_limit

\* C11: when the content is split into several chunks without the
\* oversized-sentence fallback, the chunks put together in order, with the
\* separator the chunker joins sentences with, are the content again: every
\* sentence once, in order, no text added or lost.
C11_ChunksReconstructContent ==
    (ChunkDone /\ SplitWithoutFallback /\ Len(chunks) > 1) =>
        Join(chunks) = content

(***************************************************************************)
(* Claims about the vector store                                           *)
(***************************************************************************)

\* The table after every row of b was upserted under crate name, in order.
RECURSIVE ApplyBatch(_, _, _, _)
ApplyBatch(docs, id, name, b) ==
    IF b = <<>> THEN docs
    ELSE LET key == <<name, Head(b).path>> IN
         ApplyBatch([docs EXCEPT ![key] = UpsertedRow(@, id, Head(b))],
                    id, name, Tail(b))

InCall == db_pc \in {"tx", "committed", "ok", "err"}

\* The stored chunks of crate name, by path.
ChunksOf(docs, name) == [p \in Paths |-> docs[<<name, p>>]]

\* The keys of the chunks stored for crate name.
StoredKeys(docs, name) == {k \in DOMAIN docs : k[1] = name /\ docs[k] # NoRow}

\* The aggregates over the chunks stored for crate name.
Aggregates(docs, name) ==
    [total_docs   |-> Cardinality(StoredKeys(docs, name)),
     total_tokens |-> SumTokens(docs, StoredKeys(docs, name))]

\* C2: from the moment insert_embeddings_batch is called, whatever a reader
\* of the committed table sees (a concurrent search or has_embeddings, or a
\* reader after a failure in the middle of the batch) is either the table
\* as it was before the call or the table with every row of the batch
\* upserted: never a part of the batch.
C2_BatchAtomicVisibility ==
    InCall =>
        \/ doc_embeddings = pre_docs
        \/ doc_embeddings = ApplyBatch(pre_docs, b_crate_id, b_crate, batch)

\* C2 witness: the insert of the second row of a batch failed after the
\* first row was executed, and the first row would have changed the table.
C2_Witness ==
    /\ db_pc = "err" /\ db_err = "insert"
    /\ b_idx = 1 /\ Len(batch) = 2
    /\ ApplyBatch(pre_docs, b_crate_id, b_crate, SubSeq(batch, 1, 1)) # pre_docs
    /\ doc_embeddings = pre_docs

\* C3: whenever insert_embeddings_batch has returned an error (begin, insert
\* of a row, commit, or update of the statistics failed), the stored chunks
\* of the crate are what they were before the call.
C3_ErrorRollsBack ==
    db_pc = "err" => ChunksOf(doc_embeddings, b_crate) = ChunksOf(pre_docs, b_crate)

\* C4: after insert_embeddings_batch has returned Ok, total_docs of the
\* crate is the number of chunks stored for it and total_tokens the sum of
\* their token counts.
C4_TotalsAreAggregates ==
    db_pc = "ok" => TotalsOf(crates, b_crate) = Aggregates(doc_embeddings, b_crate)

\* C4 witness: a successful call that began with totals that were out of
\* date (an earlier run failed or rows were deleted), overwrote a stored
\* chunk with one of another token count, and left another crate's chunks
\* in the table.
C4_Witness ==
    /\ db_pc = "ok"
    /\ pre_totals # Aggregates(pre_docs, b_crate)
    /\ \E k \in StoredKeys(pre_docs, b_crate) :
          doc_embeddings[k].token_count # pre_docs[k].token_count
    /\ \E n \in CrateNames \ {b_crate} : has_embeddings(doc_embeddings, n)

\* C5: when a successful insert_embeddings_batch call is repeated with the
\* same crate and the same batch, the second call leaves total_docs,
\* total_tokens and every stored row (path, content, vector, token_count)
\* as the first call left them.
C5_BatchIdempotent ==
    (db_pc = "ok" /\ is_repeat) =>
        /\ doc_embeddings = pre_docs
        /\ TotalsOf(crates, b_crate) = pre_totals

\* C5 witness: a repeated call has succeeded whose batch holds the same
\* path twice, with different contents.
C5_Witness ==
    /\ db_pc = "ok" /\ is_repeat
    /\ Len(batch) = 2
    /\ batch[1].path = batch[2].path
    /\ batch[1].content # batch[2].content

(***************************************************************************)
(* Claims about retrieval                                                  *)
(***************************************************************************)

SearchDone == search_pc = "done"

\* The key of the stored row the i-th result was made from.
ResultKey(i) == <<q_crate, search_out.rows[i].doc_path>>

ResultKeys == {ResultKey(i) : i \in DOMAIN search_out.rows}

\* C6: when the statement executes, search_similar_docs returns Ok with at
\* most limit results; each is the path and content of a chunk stored under
\* crate_name, no chunk twice, with similarity 1 - distance; similarities
\* never increase along the list; the results are the limit nearest chunks
\* of the crate (all of them when fewer are stored); and a crate without
\* stored chunks gives the empty list.
C6_SearchNearestOrdered ==
    (SearchDone /\ q_db_up) =>
        LET rows == search_out.rows
            sel  == Selected(doc_embeddings, q_crate)
        IN  /\ search_out.result = "Ok"
            /\ Len(rows) = Min(q_k, Cardinality(sel))
            /\ \A i \in DOMAIN rows :
                  /\ ResultKey(i) \in sel
                  /\ rows[i].content = doc_embeddings[ResultKey(i)].content
                  /\ rows[i].similarity =
                       AsF32(Scale - CosineDistance(doc_embeddings[ResultKey(i)].embedding, q_vec))
            /\ \A i, j \in DOMAIN rows : ResultKey(i) = ResultKey(j) => i = j
            /\ \A i \in 2..Len(rows) : rows[i - 1].similarity >= rows[i].similarity
            /\ \A in \in ResultKeys, out \in sel \ ResultKeys :
                  CosineDistance(doc_embeddings[in].embedding, q_vec)
                    <= CosineDistance(doc_embeddings[out].embedding, q_vec)
            /\ (sel = {} => rows = <<>>)

\* C6 witness: a search with limit 2 over a crate of three chunks at three
\* different distances, next to a chunk of another crate that is nearer to
\* the query than any of them: two results, the farthest chunk left out.
C6_Witness ==
    /\ SearchDone /\ q_db_up
    /\ q_k = 2 /\ Len(search_out.rows) = 2
    /\ Cardinality(Selected(doc_embeddings, q_crate)) = 3
    /\ \A a, b \in Selected(doc_embeddings, q_crate) :
          a # b => CosineDistance(doc_embeddings[a].embedding, q_vec)
                     # CosineDistance(doc_embeddings[b].embedding, q_vec)
    /\ \E o \in DOMAIN doc_embeddings :
          /\ o[1] # q_crate /\ doc_embeddings[o] # NoRow
          /\ \A a \in Selected(doc_embeddings, q_crate) :
                CosineDistance(doc_embeddings[o].embedding, q_vec)
                  < CosineDistance(doc_embeddings[a].embedding, q_vec)

(***************************************************************************)
(* Claims about the embedding orchestrator                                 *)
(***************************************************************************)

EmbedDone == e_pc = "done"

\* C12: at every moment of generate_embeddings at most CONCURRENCY_LIMIT
\* provider calls are in flight, whatever the number of chunks and the
\* order in which the calls return.
C12_InFlightBounded == Cardinality(e_in_flight) <= CONCURRENCY_LIMIT

\* C12 witness: a run of more chunks than the limit: the call of a ninth
\* chunk was sent after an earlier call had returned, and eight calls are
\* in flight again.
C12_Witness ==
    /\ Cardinality(e_in_flight) = CONCURRENCY_LIMIT
    /\ e_next > CONCURRENCY_LIMIT

RunDone == run_pc \in {"ok", "failed"}

\* Nothing was written to the store since the run began.
NothingWritten == crates = run_pre_crates /\ doc_embeddings = run_pre_docs

\* C14, as stated: a run in which the provider answered a call with a number
\* of vectors other than the number of texts sent fails with the
\* response-mismatch error, and no chunk of the run is written.
C14_MismatchFailsRun ==
    (RunDone /\ e_mismatched) =>
        /\ run_pc = "failed"
        /\ run_err = "Mismatch"
        /\ doc_embeddings = run_pre_docs

\* C14, amended: such a run fails and writes nothing to the store; its
\* error is the response-mismatch error unless the call of another chunk
\* failed before the mismatched response arrived, and then it is that
\* call's error.
C14_MismatchFailsRunFirstError ==
    (RunDone /\ e_mismatched) =>
        /\ run_pc = "failed"
        /\ run_err = e_first_err.error
        /\ (e_first_err.error # "Mismatch" => e_first_err.error = "Provider")
        /\ NothingWritten

\* C14 witness: a run over a store that holds chunks of the crate, in which
\* one chunk was embedded and the response for another held two vectors.
C14_Witness ==
    /\ run_pc = "failed"
    /\ run_err = "Mismatch"
    /\ e_first_err.got = 2
    /\ e_ok >= 1
    /\ \E c \in Ingested : has_embeddings(run_pre_docs, c)

\* C18: when the run of a crate has failed (crawl, embedding, upsert_crate
\* or insert_embeddings_batch), the crate's record and its stored chunks are
\* what they were before the run; when it has succeeded with embeddings,
\* every chunk of the run is stored and the totals are up to date.
C18_RunAllOrNothing ==
    \A c \in Ingested :
        /\ run_pc = "failed" =>
              /\ crates[c] = run_pre_crates[c]
              /\ ChunksOf(doc_embeddings, c) = ChunksOf(run_pre_docs, c)
        /\ (run_pc = "ok" /\ db_pc = "ok") =>
              /\ doc_embeddings = ApplyBatch(run_pre_docs, b_crate_id, c, batch)
              /\ TotalsOf(crates, c) = Aggregates(doc_embeddings, c)

(***************************************************************************)
(* Retrieval path claims (QuerySpec)                                       *)
(***************************************************************************)

QueryDone == qr_pc = "done"
EmbedStepReached == qr_embed_calls > 0
EmbedCallFailed == EmbedStepReached /\ ProviderResult(qr_resp).result = "Err"
EmbedGaveVector ==
    /\ EmbedStepReached
    /\ ProviderResult(qr_resp).result = "Ok"
    /\ ProviderResult(qr_resp).vectors >= 1
SearchCallFailed == qr_search_calls > 0 /\ qr_results = <<>> /\ qr_out = "database error"
QueryErrors == {"embedding error", "no embedding", "database error", "chat error"}

\* C15: every embed call whose response holds a number of vectors different
\* from the number of input texts yields an error to its caller: on the
\* query path, a question (one text) whose response holds zero or two
\* vectors never goes on to the search and the query ends with an error.
C15_MismatchIsError ==
    (EmbedStepReached /\ ProviderResult(qr_resp).result = "Ok"
                      /\ ProviderResult(qr_resp).vectors # qr_batch)
        => (QueryDone /\ qr_out \in {"embedding error", "no embedding"})

\* C19: a query that reaches the embedding step makes exactly one embedding
\* call, with a batch of one text, and at most one search call, made only
\* after the embedding call returned a vector; once it has ended, it has
\* made the search call whenever the embedding gave a vector, and a failed
\* embedding or search call has ended it with an error and without any
\* later call (no search after a failed embedding, no chat completion after
\* a failed search).
C19_OneEmbedOneSearchNoRetry ==
    /\ qr_embed_calls <= 1
    /\ qr_search_calls <= 1
    /\ qr_llm_calls <= 1
    /\ EmbedStepReached => qr_batch = 1
    /\ qr_search_calls = 1 => EmbedGaveVector
    /\ qr_llm_calls = 1 => (qr_search_calls = 1 /\ qr_results # <<>>)
    /\ (EmbedStepReached /\ ~EmbedGaveVector) =>
            /\ QueryDone
            /\ qr_out \in QueryErrors
            /\ qr_search_calls = 0
            /\ qr_llm_calls = 0
    /\ (QueryDone /\ EmbedGaveVector) => qr_search_calls = 1
    /\ SearchCallFailed => (QueryDone /\ qr_llm_calls = 0)

C19_Witness ==
    /\ QueryDone
    /\ EmbedCallFailed
    /\ qr_embed_calls = 1
    /\ qr_out = "embedding error"

(***************************************************************************)
(* Crate records (DbSpec)                                                  *)
(***************************************************************************)

\* C16: upsert_crate inserts or updates by the key name. After a call the
\* name has its one record, which carries the id the call returned; no
\* record of another name has that id; a call that found a record returns
\* the id that record had, so calls with the same name return the same id;
\* and the stored version is the supplied one when it is non-null, the
\* previous one when the call supplied null.
C16_UpsertByName ==
    up_last # NoUpsert =>
        LET r == crates[up_last.name]
        IN  /\ r # NoCrate
            /\ r.id = up_last.id
            /\ \A n \in CrateNames \ {up_last.name} :
                    crates[n] # NoCrate => crates[n].id # up_last.id
            /\ up_last.found => up_last.id = up_last.prev_id
            /\ up_last.version # "NULL" => r.version = up_last.version
            /\ up_last.version = "NULL" => r.version = up_last.prev_version

C16_Witness ==
    /\ up_last # NoUpsert
    /\ up_last.found
    /\ up_last.version = "NULL"
    /\ up_last.prev_version = "2.0"
    /\ crates[up_last.name].version = "2.0"

(***************************************************************************)
(* Preparation claims (PrepSpec)                                           *)
(***************************************************************************)

PrepDone == prep_pc = "done"
UnitPath == [path |-> "p", suffix |-> <<>>]

\* C17: a unit within the token limit becomes one chunk with the unit's own
\* path and content; a unit over the limit becomes n >= 1 pieces whose path
\* is the unit path when n = 1 and the unit path with the suffix
\* [chunk i/n], i = 1..n, when n > 1; and the unit of UNIT_TOKENS tokens
\* (20,000 at the scale of the source) yields at least 3 chunks, each of at
\* most TOKEN_LIMIT tokens.
C17_PreparedChunkPaths ==
    PrepDone =>
        LET n == Len(all_chunks)
            t == TokenCount(doc_content)
        IN  /\ t <= TOKEN_LIMIT =>
                    all_chunks = <<[chunk_path |-> UnitPath, chunk |-> doc_content]>>
            /\ t > TOKEN_LIMIT =>
                    /\ n >= 1
                    /\ n = 1 => all_chunks[1].chunk_path = UnitPath
                    /\ n > 1 => \A i \in 1..n :
                            all_chunks[i].chunk_path = [path |-> "p", suffix |-> <<i, n>>]
            /\ t = UNIT_TOKENS =>
                    /\ n >= 3
                    /\ \A i \in 1..n : TokenCount(all_chunks[i].chunk) <= TOKEN_LIMIT

(***************************************************************************)
(* Crawl failures (CrawlSpec)                                              *)
(***************************************************************************)

DocumentPaths == {documents[i] : i \in 1..Len(documents)}

\* The step in which the fetch of the current page fails.
FetchFailsStep == cur_url \notin fetch_failed /\ cur_url \in fetch_failed'

\* C20: a page whose fetch failed after all retries is skipped: the crawl
\* never ends with an error, no document is made of a failed page, and the
\* step in which the fetch fails goes back to the head of the loop with the
\* frontier and the documents untouched; the documents of the pages fetched
\* with content are all in documents, which is what the crawl returns.
C20_FailedPageSkipped ==
    /\ [](/\ crawl_pc \in {"loop", "fetch", "done"}
          /\ fetch_failed \subseteq visited
          /\ fetch_failed \cap DocumentPaths = {}
          /\ with_content \subseteq DocumentPaths)
    /\ [][FetchFailsStep =>
            /\ crawl_pc' = "loop"
            /\ to_visit' = to_visit
            /\ documents' = documents]_vars

\* C20 witness: a crawl that ended after the fetch of one page failed and a
\* page fetched after it gave a document.
C20_Witness ==
    /\ CrawlDone
    /\ \E i, j \in 1..Len(fetched) :
        /\ i < j
        /\ fetched[i] \in fetch_failed
        /\ fetched[j] \in with_content
        /\ fetched[j] \in DocumentPaths

(***************************************************************************)
(* Deletion (DbSpec)                                                       *)
(***************************************************************************)

\* A step that removes a committed chunk of crate n.
RemovesChunk(n) ==
    \E k \in Keys : k[1] = n /\ doc_embeddings[k] # NoRow /\ doc_embeddings'[k] = NoRow

\* A step that removes the record of crate n.
RemovesRecord(n) == crates[n] # NoCrate /\ crates'[n] = NoCrate

\* C21: a step of the store that removes a stored chunk or a crate record
\* is the deletion of one crate, and it removes all of that crate's chunks
\* together with its record.
C21_DeleteRemovesChunksAndRecord ==
    [][\A n \in CrateNames :
        (RemovesChunk(n) \/ RemovesRecord(n)) =>
            /\ ~has_embeddings(doc_embeddings', n)
            /\ crates'[n] = NoCrate
            /\ \A m \in CrateNames \ {n} : ~RemovesChunk(m) /\ ~RemovesRecord(m)]_vars

(***************************************************************************)
(* Failure of a chunk task (EmbedSpec)                                     *)
(***************************************************************************)

\* C22: once a chunk task of the run has failed, no step starts a new
\* provider call: the set of calls in flight only shrinks.
C22_NoNewCallAfterFailure ==
    [][e_first_err # NoErr =>
            /\ e_next' = e_next
            /\ e_in_flight' \subseteq e_in_flight]_vars

(***************************************************************************)
(* The oversized-sentence fallback (ChunkSpec)                             *)
(***************************************************************************)

\* Some sentence of the content went through the split-by-tokens fallback.
SplitWithFallback ==
    /\ ~FitsLimit(TokenCount(content), token_limit)
    /\ \E i \in DOMAIN SplitSentences(content) :
          TokenCount(SentenceWithPeriod(SplitSentences(content)[i])) > token_limit

\* The number of letters of a text, and of the texts of a sequence.
RECURSIVE LetterCount(_)
LetterCount(s) ==
    IF s = <<>> THEN 0
    ELSE (IF IsLetter(Head(s)) THEN 1 ELSE 0) + LetterCount(Tail(s))

RECURSIVE LetterCountAll(_)
LetterCountAll(ss) ==
    IF ss = <<>> THEN 0 ELSE LetterCount(Head(ss)) + LetterCountAll(Tail(ss))

\* C30: when a sentence went through the fallback, the chunks together
\* still contain each token of the content exactly once; in particular
\* every letter of the content is in exactly one chunk (periods and spaces
\* are what the chunker itself adds and drops, letters are not).
C30_FallbackKeepsTokensOnce ==
    (ChunkDone /\ SplitWithFallback) => LetterCountAll(chunks) = LetterCount(content)

(***************************************************************************)
(* Retry bound and backoff (FetchSpec)                                     *)
(***************************************************************************)

RECURSIVE Pow2(_)
Pow2(n) == IF n = 0 THEN 1 ELSE 2 * Pow2(n - 1)

\* The wait before the i-th retry: the initial delay doubled i-1 times,
\* capped.
ExpectedWait(i) == Min(INITIAL_DELAY_MS * Pow2(i - 1), DELAY_CAP_MS)

\* The bound on the requests and the waits made, for every sequence of
\* responses.
RetryBoundAndBackoff ==
    /\ fetch_out.requests <= max_retries + 1
    /\ Len(fetch_out.waits) = fetch_out.requests - 1
    /\ \A i \in 1..Len(fetch_out.waits) : fetch_out.waits[i] = ExpectedWait(i)

\* The call returned Ok at the first response of the given kinds, and an
\* error after max_retries + 1 requests when there is none.
ReturnsAtFirst(kinds) ==
    LET hits == {i \in 1..(max_retries + 1) : responses[i] \in kinds}
    IN  IF hits = {}
        THEN fetch_out.result # "Ok" /\ fetch_out.requests = max_retries + 1
        ELSE /\ fetch_out.result = "Ok"
             /\ fetch_out.requests \in hits
             /\ \A i \in hits : fetch_out.requests <= i

\* C27 as stated: the call makes at most max_retries + 1 requests, waits
\* before the i-th retry the initial 1 s doubled i-1 times and capped at
\* 30 s, and returns Ok at the first 2xx response.
C27_RetryBoundFirst2xx ==
    FetchDone => (RetryBoundAndBackoff /\ ReturnsAtFirst({"ok", "body_err"}))

\* C27 amended: the same bound and waits, and the call returns Ok at the
\* first 2xx response whose body is read; a 2xx response whose body cannot
\* be read is retried like a failing response.
C27_RetryBoundFirstReadable ==
    FetchDone => (RetryBoundAndBackoff /\ ReturnsAtFirst({"ok"}))

\* C27 witness: a call that waited six times, the sixth wait at the cap,
\* and returned the text of the seventh response, the first it could read.
C27_Witness ==
    /\ FetchDone
    /\ max_retries = 6
    /\ Len(fetch_out.waits) = 6
    /\ fetch_out.waits[6] = DELAY_CAP_MS
    /\ fetch_out.result = "Ok"
    /\ "body_err" \in {responses[i] : i \in 1..6}


(***************************************************************************)
(* Claims on the crawl frontier: doc_loader.rs 145-188                     *)
(***************************************************************************)

\* The URLs a step pushes to the back of to_visit.
NewlyPushed == {to_visit'[i] : i \in (Len(to_visit) + 1)..Len(to_visit')}

PushesLinks == Len(to_visit') > Len(to_visit)

\* The step on which fetch_with_retry returns the page of cur_url.
FetchOkStep == crawl_pc = "fetch" /\ crawl_pc' = "loop" /\ slept'

\* The step on which the first request for the next page is about to be made.
NextPageStep == Len(fetched') > Len(fetched) /\ fetched # <<>>

\* C23: in every reachable state of the crawl the frontier holds at most
\* 2 x max_pages URLs, and no step that enqueues links takes it over that
\* size.
C23_FrontierCapped ==
    /\ [](Len(to_visit) <= 2 * max_pages \/ max_pages = 0)
    /\ [][PushesLinks => Len(to_visit') <= 2 * max_pages]_vars

\* C24: the links of a fetched page are followed exactly when the number of
\* pages processed so far, that page included, is at most 75% of max_pages,
\* and once it is over 75% no step enqueues a link.
C24_FollowedUpTo75Percent ==
    /\ [][FetchOkStep => (followed' <=> processed * 4 <= max_pages * 3)]_vars
    /\ [][processed * 4 > max_pages * 3 => ~PushesLinks]_vars

\* C26: every URL the crawl enqueues is a page of the crawled crate on the
\* same site and was not visited when it was enqueued, so that every URL
\* fetched is one of the crate and no page of another crate is followed.
C26_EnqueuedInNamespaceUnvisited ==
    /\ [][\A u \in NewlyPushed : u \in CrateUrls /\ u \notin visited]_vars
    /\ [](\A i \in 1..Len(fetched) : fetched[i] \in CrateUrls)

\* C28: before the first request for the next page is made the loop has
\* slept 500 ms after the last request for the page before, whether that
\* page was fetched or failed.
C28_DelayBetweenPages ==
    [][NextPageStep => slept]_vars


\* The place of a URL in the order of first enqueues.
EnqueuePos(url) == CHOOSE i \in 1..Len(enqueued) : enqueued[i].url = url

\* C25: the frontier is first in, first out: of two fetched URLs the one
\* first enqueued earlier is fetched earlier, and no page is fetched before
\* a fetched page of smaller link depth.
C25_FrontierFifo ==
    \A i \in 1..Len(fetched) : \A j \in 1..Len(fetched) :
        /\ fetched[i] \in EnqueuedUrls(enqueued)
        /\ EnqueuePos(fetched[i]) < EnqueuePos(fetched[j]) => i < j
        /\ i < j => DepthOf(enqueued, fetched[i]) <= DepthOf(enqueued, fetched[j])

\* A page of depth 2 was fetched as the fourth page, and a URL enqueued twice.
C25_Witness ==
    /\ CrawlDone
    /\ Len(fetched) = 4
    /\ DepthOf(enqueued, fetched[4]) = 2
    /\ DepthOf(enqueued, fetched[3]) = 1
    /\ \E i \in 1..Len(fetched) : fetched[i] \in fetch_failed

\* C29: the version returned is the one found on the first page only: the
\* text of its version element, or the URL segment in version position
\* when it has a digit and is not "latest", or none; it is none when the
\* first page was not fetched, whatever the later pages hold.
C29_VersionFromFirstPageOnly ==
    extracted_version = IF root_elem = "unfetched" THEN "none"
                        ELSE ExtractVersion(root_elem, "root")

\* The crawl ended with the version of the first page's element, after
\* fetching later pages, one of them with a digit in its URL segment.
C29_Witness ==
    /\ CrawlDone
    /\ extracted_version = "1.2.3"
    /\ \E i \in 2..Len(fetched) : fetched[i] = "b" /\ "b" \notin fetch_failed

\* The first page failed and later pages were fetched: no version.
C29_WitnessNone ==
    /\ CrawlDone
    /\ "root" \in fetch_failed
    /\ extracted_version = "none"


(***************************************************************************)
(* Claims on the page budget: doc_loader.rs 64-86, 129-143                 *)
(***************************************************************************)

\* A step that pops a URL which is in visited.
PopsVisited ==
    /\ to_visit # <<>>
    /\ to_visit' = Tail(to_visit)
    /\ Head(to_visit) \in visited

\* C38: processed always equals the number of URLs in visited; a page whose
\* fetch fails stays counted and is not fetched again, popping a visited
\* URL changes neither the counter nor the fetches, and there are never
\* more documents than pages processed.
C38_ProcessedCountsVisited ==
    /\ [](/\ processed = Cardinality(visited)
          /\ Len(documents) <= processed
          /\ fetch_failed \subseteq visited
          /\ NoRefetch)
    /\ [][FetchFailsStep => processed' = processed /\ visited' = visited]_vars
    /\ [][PopsVisited => processed' = processed /\ fetched' = fetched]_vars

\* C38 witness: the page after the root failed, it was counted, and one of
\* the further links to it has been popped and skipped: of the
\* MaxSameLinks links of the root page two are gone from the frontier.
C38_Witness ==
    /\ crawl_pc = "loop"
    /\ processed = 2
    /\ cur_url \in fetch_failed
    /\ Len(to_visit) = MaxSameLinks - 2
    /\ Len(fetched) = 2
    /\ Len(documents) = 1


(***************************************************************************)
(* Claims on the worklist of generate_embeddings: embeddings.rs 290-323    *)
(***************************************************************************)

\* cur starts with text that prev ends with.
StartsWithEndOf(prev, cur) ==
    \E n \in 1..Min(Len(prev), Len(cur)) :
        SubSeq(cur, 1, n) = SubSeq(prev, Len(prev) - n + 1, Len(prev))

\* C31: the pieces of a unit over the token limit overlap: every piece
\* after the first starts with text from the end of the piece before it.
C31_PiecesOverlap ==
    (PrepDone /\ ExceedsLimit(TokenCount(doc_content))) =>
        \A i \in 2..Len(all_chunks) :
            StartsWithEndOf(all_chunks[i - 1].chunk, all_chunks[i].chunk)

\* The chunk is one sentence: split(". ") finds no boundary in it.
SingleSentence(text) == Len(SplitSentences(text)) = 1

\* C32: every chunk of the worklist has at most TOKEN_LIMIT - CHUNK_OVERLAP
\* tokens, unless it is a single sentence.
C32_WorklistWithinMargin ==
    PrepDone =>
        \A i \in 1..Len(all_chunks) :
            \/ TokenCount(all_chunks[i].chunk) <= TOKEN_LIMIT - CHUNK_OVERLAP
            \/ SingleSentence(all_chunks[i].chunk)


(***************************************************************************)
(* Claims on the results of generate_embeddings: embeddings.rs 328-396     *)
(***************************************************************************)

\* The triple of chunk i: its path and content with the provider's vector
\* for that content.
TripleOf(i) ==
    [path |-> PathOf(i), content |-> ContentOf(i), vector |-> VectorOf(ContentOf(i))]

RECURSIVE TokenSum(_)
TokenSum(n) == IF n = 0 THEN 0 ELSE TokensOf(ContentOf(n)) + TokenSum(n - 1)

\* C33: when every task succeeded, in whatever order the calls returned,
\* generate_embeddings returns one triple per chunk of the worklist, each
\* with the chunk's own path and content and the vector the provider gave
\* for that content, and the token total is the sum over the chunks.
C33_TriplesPairedByValue ==
    (EmbedDone /\ e_out.result = "Ok") =>
        /\ e_returned.embeddings_vec = {TripleOf(i) : i \in 1..e_chunks}
        /\ Cardinality(e_returned.embeddings_vec) = e_chunks
        /\ e_returned.total = TokenSum(e_chunks)

\* C33 witness: a run of more chunks than the buffer holds returned Ok after
\* a call had returned while the call of an earlier chunk was in flight.
C33_Witness ==
    /\ EmbedDone
    /\ e_out.result = "Ok"
    /\ e_chunks = MaxChunks
    /\ e_reordered
    /\ e_returned.total = TokenSum(MaxChunks)


(***************************************************************************)
(* Frame of insert_embeddings_batch: database.rs 105-169                   *)
(***************************************************************************)

\* The keys the call in progress may write: (crate_name, doc_path) for the
\* paths of its batch.
BatchKeys == {<<b_crate, batch[i].path>> : i \in 1..Len(batch)}

BatchRunning == db_pc \in {"tx", "committed"}

\* The record is the same but for the totals.
SameButTotals(old, new) ==
    IF old = NoCrate THEN new = NoCrate
    ELSE new = [old EXCEPT !.total_docs = new.total_docs,
                           !.total_tokens = new.total_tokens]

\* C35: a step of insert_embeddings_batch for a crate changes only rows
\* keyed by that crate and a path of the batch, and that crate's totals;
\* the crate's rows under other paths and the rows and records of every
\* other crate stay as they were when the call began.
C35_BatchFrame ==
    /\ [][BatchRunning =>
            /\ \A k \in Keys \ BatchKeys : doc_embeddings'[k] = doc_embeddings[k]
            /\ \A n \in CrateNames \ {b_crate} : crates'[n] = crates[n]
            /\ SameButTotals(crates[b_crate], crates'[b_crate])]_vars
    /\ [](InCall => \A k \in Keys \ BatchKeys : doc_embeddings[k] = pre_docs[k])

\* C35 witness: a batch for c1 that wrote p1 returned Ok while c1 had a row
\* under p2 from an earlier call and c2 had rows of its own.
C35_Witness ==
    /\ db_pc = "ok"
    /\ b_crate = "c1"
    /\ BatchKeys = {<<"c1", "p1">>}
    /\ doc_embeddings[<<"c1", "p1">>] # pre_docs[<<"c1", "p1">>]
    /\ pre_docs[<<"c1", "p2">>] # NoRow
    /\ has_embeddings(doc_embeddings, "c2")
    /\ TotalsOf(crates, "c1") # TotalsOf(crates, "c2")


(***************************************************************************)
(* Totals of the crates table: database.rs 67-102, 149-169, 253-304        *)
(***************************************************************************)

\* get_crate_stats: the total_docs and total_tokens columns as stored.
get_crate_stats(crs, name) == TotalsOf(crs, name)

\* C37: whenever no call is in progress, after any sequence of completed
\* upsert_crate, insert_embedding, insert_embeddings_batch and
\* delete_crate_embeddings calls, the totals get_crate_stats reports for a
\* crate are the count and the token sum of the chunks stored for it.
C37_TotalsAlwaysAggregates ==
    db_pc = "idle" =>
        \A n \in CrateNames :
            crates[n] # NoCrate =>
                get_crate_stats(crates, n) = Aggregates(doc_embeddings, n)


(***************************************************************************)
(* Claims on parallel population: bin/populate_all.rs 105-183              *)
(***************************************************************************)

\* C34: the pipelines of the crates ingested together are independent: when
\* the crawl, the embedding or the persistence of one crate fails, no other
\* crate's task is cancelled, and none is kept from completing and
\* persisting its chunks.
C34_PipelinesIndependent ==
    \A c \in PopCrates : \A d \in PopCrates \ {c} :
        pa_task[c] = "failed" => pa_task[d] # "dropped"


(***************************************************************************)
(* The has_embeddings precondition of retrieval: server.rs 225-272,        *)
(* bin/http_server.rs 170-206, main.rs 124-149                             *)
(***************************************************************************)

\* C36: a query never embeds its question or searches for a crate for which
\* has_embeddings is false: the check comes before both, for every crate
\* name a caller passes.
C36_CheckedBeforeRetrieval ==
    (qr_embed_calls > 0 \/ qr_search_calls > 0) =>
        has_embeddings(doc_embeddings, qr_crate)

================================================================================
